---- MODULE Spec2Model ----
(***************************************************************************)
(* TMDB synchronisation add-on (rogervdo/TMDB): movie / genre / person     *)
(* reconciliation against the TMDB REST API, and the duplicate clean-up    *)
(* wizard.  The relational store is modelled as three tables (movies,      *)
(* genres, partners) keyed by the ORM's auto-increment ids; every handler  *)
(* is one action over those tables.  The TMDB side (JSON answers, request  *)
(* failures, the image CDN) is the input of each action.                   *)
(*                                                                         *)
(* Fields no modelled operation reads (original_title, popularity,         *)
(* last_sync, active) are left out of the Movie record.                    *)
(***************************************************************************)
EXTENDS Integers, Sequences, FiniteSets, TLC

(* ------------------------------ bounds --------------------------------- *)
MaxClock == 3           \* handler invocations happen at times 1..MaxClock
Today == 20000          \* fields.Date.today(), as a day number

(* ---------------------------- value encoding --------------------------- *)
\* Python None / Odoo False for each column type.  Strings, integers and
\* record ids each get a sentinel of their own type.
NoneStr == "<None>"
FalseStr == "<False>"
NoneInt == 0 - 1000
NoDate == 0 - 2000
NoId == 0

\* Exceptions are named by class; the ValueError / UserError whose message
\* is "TMDB API key not configured" is told apart from the other ones.
NoApiKey == "TMDB API key not configured"

\* The external movie ids the TMDB stub knows.
TmdbIds == {1, 2}

Range(f) == {f[i] : i \in DOMAIN f}

Max(S) == CHOOSE x \in S : \A y \in S : y <= x

\* Python "x or False" on an optional string: None and "" both become False.
OrFalseStr(x) == IF x = NoneStr \/ x = "" THEN FalseStr ELSE x

\* Python "x or 0" on an optional number.
OrZero(x) == IF x = NoneInt \/ x = 0 THEN 0 ELSE x

\* "release_date or False" followed by the ORM's string-to-date conversion;
\* dates are day numbers on both sides.
OrFalseDate(x) == IF x = NoneInt THEN NoDate ELSE x

Truthy(s) == s # NoneStr /\ s # FalseStr /\ s # ""

(* ------------------------------- store --------------------------------- *)
\* db == [movies, genres, partners, movie_seq]; each table is a function
\* from record id to record.  genres and partners are never unlinked, so
\* their next id is the table size plus one; movies can be unlinked, so the
\* movie id sequence is kept.
EmptyDb ==
    [movies |-> <<>>, genres |-> <<>>, partners |-> <<>>, movie_seq |-> 0]

NextGenreId(db) == Cardinality(DOMAIN db.genres) + 1
NextPartnerId(db) == Cardinality(DOMAIN db.partners) + 1

\* tmdb.movie search([("tmdb_id", "=", tmdb_id)])
SearchMovies(ms, tmdb_id) == {i \in DOMAIN ms : ms[i].tmdb_id = tmdb_id}

\* tmdb.genre search([("tmdb_genre_id", "=", gid)])
SearchGenres(gs, gid) == {i \in DOMAIN gs : gs[i].tmdb_genre_id = gid}

(* --------------------- write-time constraints -------------------------- *)
\* Faulty variant: a store without the tmdb_id_unique constraint.
SqlUniqueDropped(ms) == ms = ms

\* _sql_constraints tmdb_id_unique: checked by the store on INSERT/UPDATE
\* against every committed row.
SqlUniqueOk(ms) ==
    \A i, j \in DOMAIN ms : ms[i].tmdb_id = ms[j].tmdb_id => i = j

validate_date(r) == ~(r.release_date # NoDate /\ r.release_date > Today)

validate_vote_average(r) == ~(r.vote_average < 0 \/ r.vote_average > 10)

validate_vote_count(r) == ~(r.vote_count < 0)

\* search_count is evaluated inside the caller's transaction: "visible" is
\* the table as that transaction sees it.
validate_unique_tmdb_id(visible, r) ==
    ~(Cardinality(SearchMovies(visible, r.tmdb_id)) > 1)

\* @api.constrains methods run for the fields named in the written values.
PyConstraintsOk(visible, ids, fieldsWritten) ==
    \A i \in ids :
        /\ ("release_date" \in fieldsWritten => validate_date(visible[i]))
        /\ ("vote_average" \in fieldsWritten => validate_vote_average(visible[i]))
        /\ ("vote_count" \in fieldsWritten => validate_vote_count(visible[i]))
        /\ ("tmdb_id" \in fieldsWritten => validate_unique_tmdb_id(visible, visible[i]))

(* ------------------------- ORM create / write -------------------------- *)
\* Column defaults of a tmdb.movie row that is created without the field.
MovieDefaults ==
    [tmdb_id |-> 0, title |-> <<>>, overview |-> FalseStr,
     release_date |-> NoDate, vote_average |-> 0, vote_count |-> 0,
     poster_path |-> FalseStr, backdrop_path |-> FalseStr,
     director |-> FalseStr, director_id |-> NoId,
     genre_ids |-> {}, actor_ids |-> {}, create_date |-> 0]

\* The row after writing vals over r.
Overlay(r, vals) ==
    [f \in DOMAIN r |-> IF f \in DOMAIN vals THEN vals[f] ELSE r[f]]

\* Rows of ms that the calling transaction can see; "hidden" are the ids
\* committed by other transactions after this one took its snapshot.
Visible(ms, hidden) == [i \in DOMAIN ms \ hidden |-> ms[i]]

Put(tbl, id, r) == [i \in DOMAIN tbl \cup {id} |-> IF i = id THEN r ELSE tbl[i]]

\* Faulty variant: create with neither the store constraint nor the
\* validators.
MovieCreateUnchecked(db, hidden, vals, now) ==
    LET id == db.movie_seq + 1
        row == Overlay([MovieDefaults EXCEPT !.create_date = now], vals)
    IN  [db |-> [db EXCEPT !.movies = Put(db.movies, id, row), !.movie_seq = id],
         ids |-> {id}, exc |-> "none"]

\* tmdb.movie create(vals): INSERT (store constraints), then the
\* @api.constrains validators; a failure aborts the write.
\* now is the transaction timestamp that becomes create_date.
MovieCreate(db, hidden, vals, now) ==
    LET id == db.movie_seq + 1
        row == Overlay([MovieDefaults EXCEPT !.create_date = now], vals)
        ms1 == Put(db.movies, id, row)
    IN  IF ~SqlUniqueOk(ms1)
        THEN [db |-> db, ids |-> {}, exc |-> "IntegrityError"]
        ELSE IF ~PyConstraintsOk(Visible(ms1, hidden), {id}, DOMAIN vals)
        THEN [db |-> db, ids |-> {}, exc |-> "ValidationError"]
        ELSE [db |-> [db EXCEPT !.movies = ms1, !.movie_seq = id],
              ids |-> {id}, exc |-> "none"]

\* recordset.write(vals) on the rows ids.
MovieWrite(db, hidden, ids, vals) ==
    LET ms1 == [i \in DOMAIN db.movies |->
                   IF i \in ids THEN Overlay(db.movies[i], vals)
                   ELSE db.movies[i]]
    IN  IF ~SqlUniqueOk(ms1) /\ "tmdb_id" \in DOMAIN vals
        THEN [db |-> db, ids |-> ids, exc |-> "IntegrityError"]
        ELSE IF ~PyConstraintsOk(Visible(ms1, hidden), ids, DOMAIN vals)
        THEN [db |-> db, ids |-> ids, exc |-> "ValidationError"]
        ELSE [db |-> [db EXCEPT !.movies = ms1], ids |-> ids, exc |-> "none"]

\* recordset.unlink()
MovieUnlink(db, ids) ==
    [db EXCEPT !.movies = [i \in DOMAIN db.movies \ ids |-> db.movies[i]]]

(* --------------------------- Person Resolver --------------------------- *)
\* res.partner rows: name, role flags, job title, image present, and the
\* TMDB profile path the image came from.
\* cdn is the set of profile paths the image CDN currently serves.
\* Faulty variant: the answer of the image request is not checked, what
\* came back is attached.
update_image_unchecked(db, pid, profile_path, cdn) ==
    IF ~Truthy(profile_path)
    THEN [db |-> db, reqs |-> <<>>]
    ELSE [db |-> [db EXCEPT !.partners[pid].image_1920 = TRUE,
                            !.partners[pid].tmdb_profile_path = profile_path],
          reqs |-> <<"image">>]

update_image_from_tmdb_profile(db, pid, profile_path, cdn) ==
    IF ~Truthy(profile_path)
    THEN [db |-> db, reqs |-> <<>>]
    ELSE IF profile_path \in cdn
    THEN [db |-> [db EXCEPT !.partners[pid].image_1920 = TRUE,
                            !.partners[pid].tmdb_profile_path = profile_path],
          reqs |-> <<"image">>]
    ELSE [db |-> db, reqs |-> <<"image">>]

\* search([...], limit=1): res.partner orders equal names by id descending.
FirstPartner(S) == IF S = {} THEN NoId ELSE Max(S)

\* Faulty variant: the search for an existing contact is skipped, every
\* call creates.
ResolvePersonAlwaysCreates(db, name, profile_path, cdn, flag, job) ==
    IF ~Truthy(name)
    THEN [db |-> db, id |-> NoId, reqs |-> <<>>]
    ELSE
    LET pid == NextPartnerId(db)
        row == [name |-> name, is_director |-> (flag = "is_director"),
                is_actor |-> (flag = "is_actor"), function |-> job,
                image_1920 |-> FALSE, tmdb_profile_path |-> FalseStr]
        Created(u) == [db |-> u.db, id |-> pid, reqs |-> u.reqs]
    IN  Created(update_image_from_tmdb_profile(
            [db EXCEPT !.partners = Put(db.partners, pid, row)],
            pid, profile_path, cdn))

ResolvePerson(db, name, profile_path, cdn, flag, job) ==
    IF ~Truthy(name)
    THEN [db |-> db, id |-> NoId, reqs |-> <<>>]
    ELSE
    LET existing == FirstPartner({i \in DOMAIN db.partners :
                        db.partners[i].name = name /\ db.partners[i][flag]})
    IN  IF existing # NoId
        THEN IF Truthy(profile_path) /\ ~db.partners[existing].image_1920
             THEN LET Found(u) == [db |-> u.db, id |-> existing, reqs |-> u.reqs]
                  IN  Found(update_image_from_tmdb_profile(
                                db, existing, profile_path, cdn))
             ELSE [db |-> db, id |-> existing, reqs |-> <<>>]
        ELSE
        LET pid == NextPartnerId(db)
            row == [name |-> name, is_director |-> (flag = "is_director"),
                    is_actor |-> (flag = "is_actor"), function |-> job,
                    image_1920 |-> FALSE, tmdb_profile_path |-> FalseStr]
            Created(u) == [db |-> u.db, id |-> pid, reqs |-> u.reqs]
        IN  Created(update_image_from_tmdb_profile(
                [db EXCEPT !.partners = Put(db.partners, pid, row)],
                pid, profile_path, cdn))

find_or_create_director_contact_simple(db, name, profile_path, cdn) ==
    ResolvePerson(db, name, profile_path, cdn, "is_director", "Film Director")

find_or_create_actor_contact(db, name, profile_path, cdn) ==
    ResolvePerson(db, name, profile_path, cdn, "is_actor", "Actor")

(* --------------------------- Movie Reconciler -------------------------- *)
\* An upstream movie-details document is a record
\*   [id, title, overview, release_date, vote_average, vote_count,
\*    poster_path, backdrop_path, genres]
\* with genres a sequence of [id, name]; a credits document is
\*   [crew |-> Seq([job, name, profile_path]),
\*    cast |-> Seq([name, popularity, profile_path])].
\* A request that raises RequestException is an "ok = FALSE" input.

RECURSIVE FirstDirector(_)
FirstDirector(crew) ==
    IF crew = <<>> THEN [name |-> NoneStr, profile_path |-> NoneStr]
    ELSE IF Head(crew).job = "Director"
    THEN [name |-> Head(crew).name, profile_path |-> Head(crew).profile_path]
    ELSE FirstDirector(Tail(crew))

get_director_from_credits(credits) == FirstDirector(credits.crew)

_process_director_info(db, credits, ok, cdn) ==
    IF ~ok
    THEN [db |-> db, director |-> NoneStr, director_contact |-> NoId,
          reqs |-> <<"credits">>]
    ELSE
    LET d == get_director_from_credits(credits)
    IN  IF Truthy(d.name)
        THEN LET Contact(c) ==
                     [db |-> c.db, director |-> d.name,
                      director_contact |-> c.id,
                      reqs |-> <<"credits">> \o c.reqs]
             IN  Contact(find_or_create_director_contact_simple(
                             db, d.name, d.profile_path, cdn))
        ELSE [db |-> db, director |-> d.name, director_contact |-> NoId,
              reqs |-> <<"credits">>]

\* sorted(cast, key=popularity, reverse=True): stable, so among equal
\* popularities the upstream order is kept.
RECURSIVE SortedCast(_)
SortedCast(cast) ==
    IF cast = <<>> THEN <<>>
    ELSE LET best == Max({cast[i].popularity : i \in DOMAIN cast})
             k == CHOOSE i \in DOMAIN cast :
                     /\ cast[i].popularity = best
                     /\ \A j \in 1..(i - 1) : cast[j].popularity # best
         IN  <<cast[k]>> \o
             SortedCast(SubSeq(cast, 1, k - 1) \o SubSeq(cast, k + 1, Len(cast)))

TopActors == 5

Take(seq, n) == SubSeq(seq, 1, IF Len(seq) < n THEN Len(seq) ELSE n)

RECURSIVE ResolveCast(_, _, _)
ResolveCast(db, cast, cdn) ==
    IF cast = <<>> THEN [db |-> db, actor_ids |-> <<>>, reqs |-> <<>>]
    ELSE LET m == Head(cast)
             Both(c, rest) ==
                 [db |-> rest.db,
                  actor_ids |-> (IF c.id # NoId THEN <<c.id>> ELSE <<>>)
                                \o rest.actor_ids,
                  reqs |-> c.reqs \o rest.reqs]
             Then(c) == Both(c, ResolveCast(c.db, Tail(cast), cdn))
         IN  Then(find_or_create_actor_contact(db, m.name, m.profile_path, cdn))

_process_actors_info(db, credits, ok, cdn) ==
    IF ~ok
    THEN [db |-> db, actor_ids |-> <<>>, reqs |-> <<"credits">>]
    ELSE LET Resolved(r) == [db |-> r.db, actor_ids |-> r.actor_ids,
                             reqs |-> <<"credits">> \o r.reqs]
         IN  Resolved(ResolveCast(
                 db, Take(SortedCast(credits.cast), TopActors), cdn))

\* Faulty variant: a genre is created for every entry, known or not.
RECURSIVE _process_genres_creating(_, _)
_process_genres_creating(db, genres_data) ==
    IF genres_data = <<>> THEN [db |-> db, genre_ids |-> <<>>, exc |-> "none"]
    ELSE
    LET g == Head(genres_data)
        gid == NextGenreId(db)
        db1 == [db EXCEPT !.genres = Put(db.genres, gid,
                              [tmdb_genre_id |-> g.id, name |-> g.name])]
        Then(rest) == [db |-> rest.db,
                       genre_ids |-> <<gid>> \o rest.genre_ids,
                       exc |-> rest.exc]
    IN  Then(_process_genres_creating(db1, Tail(genres_data)))

\* "genre_record.id" needs a singleton recordset; exc is "ValueError" when
\* the search returned several rows.
RECURSIVE _process_genres(_, _)
_process_genres(db, genres_data) ==
    IF genres_data = <<>> THEN [db |-> db, genre_ids |-> <<>>, exc |-> "none"]
    ELSE
    LET g == Head(genres_data)
        found == SearchGenres(db.genres, g.id)
    IN  IF Cardinality(found) > 1
        THEN [db |-> db, genre_ids |-> <<>>, exc |-> "ValueError"]
        ELSE
        LET gid == IF found # {} THEN CHOOSE i \in found : TRUE
                   ELSE NextGenreId(db)
            db1 == IF found # {} THEN db
                   ELSE [db EXCEPT !.genres = Put(db.genres, gid,
                            [tmdb_genre_id |-> g.id, name |-> g.name])]
            Then(rest) == [db |-> rest.db,
                           genre_ids |-> <<gid>> \o rest.genre_ids,
                           exc |-> rest.exc]
        IN  Then(_process_genres(db1, Tail(genres_data)))

_prepare_movie_values(movie_data, director, director_contact, genre_ids, actor_ids) ==
    LET movie_vals ==
            [tmdb_id |-> movie_data.id,
             title |-> movie_data.title,
             overview |-> OrFalseStr(movie_data.overview),
             release_date |-> OrFalseDate(movie_data.release_date),
             vote_average |-> OrZero(movie_data.vote_average),
             vote_count |-> OrZero(movie_data.vote_count),
             poster_path |-> OrFalseStr(movie_data.poster_path),
             backdrop_path |-> OrFalseStr(movie_data.backdrop_path),
             director |-> OrFalseStr(director),
             director_id |-> director_contact,
             genre_ids |-> Range(genre_ids)]
    IN  IF actor_ids # <<>>
        THEN movie_vals @@ [actor_ids |-> Range(actor_ids)]
        ELSE movie_vals

\* Faulty variant: the whole call is atomic, a failed write undoes the genres and
\* partners resolved before it.
SyncResolveAndWriteAtomic(db, hidden, existing_movie, in, now) ==
    LET Outcome(d, a, g, w) ==
            [db |-> IF g.exc # "none" THEN db
                    ELSE IF w.exc # "none" THEN db ELSE w.db,
             kind |-> IF g.exc = "none" /\ w.exc = "none" THEN "movie"
                      ELSE "exc",
             exc |-> IF g.exc # "none" THEN g.exc ELSE w.exc,
             ids |-> IF g.exc = "none" /\ w.exc = "none" THEN w.ids ELSE {},
             reqs |-> d.reqs \o a.reqs,
             genre_ids |-> Range(g.genre_ids),
             actor_ids |-> Range(a.actor_ids),
             created |-> /\ g.exc = "none"
                         /\ existing_movie = {}
                         /\ w.exc = "none"]
        Write(d, a, g, movie_vals) ==
            Outcome(d, a, g,
                    IF existing_movie # {}
                    THEN MovieWrite(g.db, hidden, existing_movie, movie_vals)
                    ELSE MovieCreate(g.db, hidden, movie_vals, now))
        Prepare(d, a, g) ==
            Write(d, a, g, _prepare_movie_values(
                in.details, d.director, d.director_contact,
                g.genre_ids, a.actor_ids))
        Genres(d, a) == Prepare(d, a, _process_genres(a.db, in.details.genres))
        Actors(d) ==
            Genres(d, _process_actors_info(
                          d.db, in.credits, in.creditsOk2, in.cdn))
    IN  Actors(_process_director_info(db, in.credits, in.creditsOk1, in.cdn))

\* sync_movie_from_tmdb after the details fetch and the existence search:
\* resolve director, actors and genres, then write or create.
SyncResolveAndWrite(db, hidden, existing_movie, in, now) ==
    LET Outcome(d, a, g, w) ==
            [db |-> IF g.exc # "none" THEN g.db
                    ELSE IF w.exc # "none" THEN w.db ELSE w.db,
             kind |-> IF g.exc = "none" /\ w.exc = "none" THEN "movie"
                      ELSE "exc",
             exc |-> IF g.exc # "none" THEN g.exc ELSE w.exc,
             ids |-> IF g.exc = "none" /\ w.exc = "none" THEN w.ids ELSE {},
             reqs |-> d.reqs \o a.reqs,
             genre_ids |-> Range(g.genre_ids),
             actor_ids |-> Range(a.actor_ids),
             created |-> /\ g.exc = "none"
                         /\ existing_movie = {}
                         /\ w.exc = "none"]
        Write(d, a, g, movie_vals) ==
            Outcome(d, a, g,
                    IF existing_movie # {}
                    THEN MovieWrite(g.db, hidden, existing_movie, movie_vals)
                    ELSE MovieCreate(g.db, hidden, movie_vals, now))
        Prepare(d, a, g) ==
            Write(d, a, g, _prepare_movie_values(
                in.details, d.director, d.director_contact,
                g.genre_ids, a.actor_ids))
        Genres(d, a) == Prepare(d, a, _process_genres(a.db, in.details.genres))
        Actors(d) ==
            Genres(d, _process_actors_info(
                          d.db, in.credits, in.creditsOk2, in.cdn))
    IN  Actors(_process_director_info(db, in.credits, in.creditsOk1, in.cdn))

NoTrace == [reqs |-> <<>>, genre_ids |-> {}, actor_ids |-> {}, created |-> FALSE]

\* Faulty variant: the existence search is skipped, every call creates.
sync_movie_always_creates(db, key, tmdb_id, in, now) ==
    IF ~key
    THEN [db |-> db, kind |-> "exc", exc |-> NoApiKey, ids |-> {}] @@ NoTrace
    ELSE IF ~in.detailsOk
    THEN [db |-> db, kind |-> "false", exc |-> "none", ids |-> {}]
         @@ [NoTrace EXCEPT !.reqs = <<"details">>]
    ELSE LET Fetched(r) == [r EXCEPT !.reqs = <<"details">> \o @]
         IN  Fetched(SyncResolveAndWrite(db, {}, {}, in, now))

\* Faulty variant: a failed details request is not noticed.
sync_movie_ignores_fetch_failure(db, key, tmdb_id, in, now) ==
    IF ~key
    THEN [db |-> db, kind |-> "exc", exc |-> NoApiKey, ids |-> {}] @@ NoTrace
    ELSE LET Fetched(r) == [r EXCEPT !.reqs = <<"details">> \o @]
         IN  Fetched(SyncResolveAndWrite(
                         db, {}, SearchMovies(db.movies, tmdb_id), in, now))

\* in == [details, detailsOk, credits, creditsOk1, creditsOk2, cdn];
\* key is the configured API key (FALSE when not configured).
sync_movie_from_tmdb(db, key, tmdb_id, in, now) ==
    IF ~key
    THEN [db |-> db, kind |-> "exc", exc |-> NoApiKey, ids |-> {}] @@ NoTrace
    ELSE IF ~in.detailsOk
    THEN [db |-> db, kind |-> "false", exc |-> "none", ids |-> {}]
         @@ [NoTrace EXCEPT !.reqs = <<"details">>]
    ELSE LET Fetched(r) == [r EXCEPT !.reqs = <<"details">> \o @]
         IN  Fetched(SyncResolveAndWrite(
                         db, {}, SearchMovies(db.movies, tmdb_id), in, now))

(* --------------------------- Genre Reconciler -------------------------- *)
\* The answer to GET /genre/movie/list is ok (a 2xx answer) with a
\* sequence of entries [id, name]; an entry whose name is NoneStr has no
\* usable "name".
\* Faulty variant: a known genre keeps its stored name and is still counted
\* as synced.
RECURSIVE SyncAllLoopNoUpdate(_, _)
SyncAllLoopNoUpdate(db, entries) ==
    IF entries = <<>>
    THEN [db |-> db, synced |-> 0, created |-> 0, exc |-> "none"]
    ELSE
    LET g == Head(entries)
        existing_genre == SearchGenres(db.genres, g.id)
    IN  IF g.name = NoneStr
        THEN [db |-> db, synced |-> 0, created |-> 0, exc |-> "UserError"]
        ELSE
        LET db1 == IF existing_genre # {} THEN db
                   ELSE [db EXCEPT !.genres = Put(db.genres, NextGenreId(db),
                            [tmdb_genre_id |-> g.id, name |-> g.name])]
            Then(rest) ==
                [db |-> rest.db,
                 synced |-> rest.synced + (IF existing_genre # {} THEN 1 ELSE 0),
                 created |-> rest.created + (IF existing_genre # {} THEN 0 ELSE 1),
                 exc |-> rest.exc]
        IN  Then(SyncAllLoopNoUpdate(db1, Tail(entries)))

RECURSIVE SyncAllLoop(_, _)
SyncAllLoop(db, entries) ==
    IF entries = <<>>
    THEN [db |-> db, synced |-> 0, created |-> 0, exc |-> "none"]
    ELSE
    LET g == Head(entries)
        existing_genre == SearchGenres(db.genres, g.id)
    IN  IF g.name = NoneStr
        THEN [db |-> db, synced |-> 0, created |-> 0, exc |-> "UserError"]
        ELSE
        LET db1 == IF existing_genre # {}
                   THEN [db EXCEPT !.genres =
                            [i \in DOMAIN db.genres |->
                                IF i \in existing_genre
                                THEN [db.genres[i] EXCEPT !.name = g.name]
                                ELSE db.genres[i]]]
                   ELSE [db EXCEPT !.genres = Put(db.genres, NextGenreId(db),
                            [tmdb_genre_id |-> g.id, name |-> g.name])]
            Then(rest) ==
                [db |-> rest.db,
                 synced |-> rest.synced + (IF existing_genre # {} THEN 1 ELSE 0),
                 created |-> rest.created + (IF existing_genre # {} THEN 0 ELSE 1),
                 exc |-> rest.exc]
        IN  Then(SyncAllLoop(db1, Tail(entries)))

sync_all_genres_from_tmdb(db, key, ok, entries) ==
    IF ~key
    THEN [db |-> db, kind |-> "exc", exc |-> NoApiKey, reqs |-> <<>>,
          synced |-> 0, created |-> 0, skipped |-> 0, total |-> 0]
    ELSE IF ~ok
    THEN [db |-> db, kind |-> "exc", exc |-> "UserError", reqs |-> <<"genres">>,
          synced |-> 0, created |-> 0, skipped |-> 0, total |-> 0]
    ELSE LET Counts(r) ==
                 [db |-> r.db,
                  kind |-> IF r.exc = "none" THEN "counts" ELSE "exc",
                  exc |-> r.exc, reqs |-> <<"genres">>,
                  synced |-> r.synced, created |-> r.created, skipped |-> 0,
                  total |-> r.synced + r.created]
         IN  Counts(SyncAllLoop(db, entries))

RECURSIVE SyncNewLoop(_, _)
SyncNewLoop(db, entries) ==
    IF entries = <<>>
    THEN [db |-> db, created |-> 0, skipped |-> 0, exc |-> "none"]
    ELSE
    LET g == Head(entries)
        existing_genre == SearchGenres(db.genres, g.id)
    IN  IF existing_genre = {} /\ g.name = NoneStr
        THEN [db |-> db, created |-> 0, skipped |-> 0, exc |-> "UserError"]
        ELSE
        LET db1 == IF existing_genre # {} THEN db
                   ELSE [db EXCEPT !.genres = Put(db.genres, NextGenreId(db),
                            [tmdb_genre_id |-> g.id, name |-> g.name])]
            Then(rest) ==
                [db |-> rest.db,
                 created |-> rest.created + (IF existing_genre # {} THEN 0 ELSE 1),
                 skipped |-> rest.skipped + (IF existing_genre # {} THEN 1 ELSE 0),
                 exc |-> rest.exc]
        IN  Then(SyncNewLoop(db1, Tail(entries)))

\* Faulty variant: a known genre is brought up to date like sync_all does, and
\* counted as skipped.
sync_only_new_updates_existing(db, key, ok, entries) ==
    LET Relabel(r) == [r EXCEPT !.synced = 0, !.skipped = r.synced]
    IN  Relabel(sync_all_genres_from_tmdb(db, key, ok, entries))

sync_only_new_genres_from_tmdb(db, key, ok, entries) ==
    IF ~key
    THEN [db |-> db, kind |-> "exc", exc |-> NoApiKey, reqs |-> <<>>,
          synced |-> 0, created |-> 0, skipped |-> 0, total |-> 0]
    ELSE IF ~ok
    THEN [db |-> db, kind |-> "exc", exc |-> "UserError", reqs |-> <<"genres">>,
          synced |-> 0, created |-> 0, skipped |-> 0, total |-> 0]
    ELSE LET Counts(r) ==
                 [db |-> r.db,
                  kind |-> IF r.exc = "none" THEN "counts" ELSE "exc",
                  exc |-> r.exc, reqs |-> <<"genres">>,
                  synced |-> 0, created |-> r.created, skipped |-> r.skipped,
                  total |-> r.created + r.skipped]
         IN  Counts(SyncNewLoop(db, entries))

(* --------------------------- Bulk Sync Driver -------------------------- *)
\* Python seq[:limit]
PySlice(seq, limit) ==
    IF limit >= 0 THEN Take(seq, limit)
    ELSE SubSeq(seq, 1, Len(seq) + limit)

\* "for movie in results: if sync_movie_from_tmdb(movie.id): count += 1".
\* An exception of one call ends the loop and is the caller's exception.
RECURSIVE SyncEach(_, _, _, _, _)
SyncEach(db, key, ids, ins, now) ==
    IF ids = <<>>
    THEN [db |-> db, kinds |-> <<>>, exc |-> "none", reqs |-> <<>>]
    ELSE
    LET Both(r, rest) ==
            [db |-> rest.db, kinds |-> <<r.kind>> \o rest.kinds,
             exc |-> rest.exc, reqs |-> r.reqs \o rest.reqs]
        Then(r) ==
            IF r.kind = "exc"
            THEN [db |-> r.db, kinds |-> <<"exc">>, exc |-> r.exc,
                  reqs |-> r.reqs]
            ELSE Both(r, SyncEach(r.db, key, Tail(ids), Tail(ins), now))
    IN  Then(sync_movie_from_tmdb(db, key, Head(ids), Head(ins), now))

Count(kinds, k) == Cardinality({i \in DOMAIN kinds : kinds[i] = k})

\* Faulty variant: the first failed movie ends the page.
sync_popular_stops_at_failure(db, key, pageOk, results, limit, ins, now) ==
    LET todo == PySlice(results, limit)
        bad == {i \in DOMAIN todo : ~ins[i].detailsOk}
        upto == IF bad = {} THEN Len(todo)
                ELSE CHOOSE i \in bad : \A j \in bad : i <= j
        Counted(r) ==
            [db |-> r.db, kind |-> IF r.exc = "none" THEN "count" ELSE "exc",
             exc |-> r.exc, reqs |-> <<"popular">> \o r.reqs,
             kinds |-> r.kinds, count |-> Count(r.kinds, "movie")]
    IN  IF ~key
        THEN [db |-> db, kind |-> "exc", exc |-> NoApiKey, reqs |-> <<>>,
              kinds |-> <<>>, count |-> 0]
        ELSE IF ~pageOk
        THEN [db |-> db, kind |-> "count", exc |-> "none",
              reqs |-> <<"popular">>, kinds |-> <<>>, count |-> 0]
        ELSE Counted(SyncEach(db, key, SubSeq(todo, 1, upto),
                              SubSeq(ins, 1, upto), now))

\* results are the ids of the page's entries, ins[i] what TMDB answers to
\* the requests made for entry i.
sync_popular_movies(db, key, pageOk, results, limit, ins, now) ==
    IF ~key
    THEN [db |-> db, kind |-> "exc", exc |-> NoApiKey, reqs |-> <<>>,
          kinds |-> <<>>, count |-> 0]
    ELSE IF ~pageOk
    THEN [db |-> db, kind |-> "count", exc |-> "none", reqs |-> <<"popular">>,
          kinds |-> <<>>, count |-> 0]
    ELSE LET todo == PySlice(results, limit)
             Counted(r) ==
                 [db |-> r.db,
                  kind |-> IF r.exc = "none" THEN "count" ELSE "exc",
                  exc |-> r.exc, reqs |-> <<"popular">> \o r.reqs,
                  kinds |-> r.kinds, count |-> Count(r.kinds, "movie")]
         IN  Counted(SyncEach(db, key, todo, SubSeq(ins, 1, Len(todo)), now))

\* search_movies: the page of results, None (kind "none") on a failed
\* request.
search_movies(key, pageOk, results) ==
    IF ~key
    THEN [kind |-> "exc", exc |-> NoApiKey, reqs |-> <<>>, results |-> <<>>]
    ELSE IF ~pageOk
    THEN [kind |-> "none", exc |-> "none", reqs |-> <<"search">>,
          results |-> <<>>]
    ELSE [kind |-> "data", exc |-> "none", reqs |-> <<"search">>,
          results |-> results]

(* ----------------------------- Sync Wizard ----------------------------- *)
\* w is the wizard form: [sync_type, sync_genres_first, sync_only_new_genres,
\* search_query, movie_id, limit]; search_query is TRUE when a query was
\* typed, movie_id is 0 when none was entered.
\* up is what TMDB answers during the call: [genresOk, genres, pageOk,
\* results, ins].
sync_genres_from_tmdb(db, key, w, up) ==
    IF w.sync_only_new_genres
    THEN sync_only_new_genres_from_tmdb(db, key, up.genresOk, up.genres)
    ELSE sync_all_genres_from_tmdb(db, key, up.genresOk, up.genres)

WizardRaise(db, exc, reqs) ==
    [db |-> db, kind |-> "exc", exc |-> exc, reqs |-> reqs, count |-> 0,
     wizard_step |-> "same"]

WizardDone(db, reqs, count) ==
    [db |-> db, kind |-> "done", exc |-> "none", reqs |-> reqs, count |-> count,
     wizard_step |-> "complete"]

\* action_sync_movies after the optional leading genre sync.
SyncByType(db, key, w, up, reqs, now) ==
    IF w.sync_type = "genres_first"
    THEN LET Genres(g) ==
                 IF g.kind = "exc" THEN WizardRaise(g.db, g.exc, reqs \o g.reqs)
                 ELSE WizardDone(g.db, reqs \o g.reqs, 0)
         IN  Genres(sync_genres_from_tmdb(db, key, w, up))
    ELSE IF w.sync_type = "popular"
    THEN LET Popular(p) ==
                 IF p.kind = "exc" THEN WizardRaise(p.db, p.exc, reqs \o p.reqs)
                 ELSE WizardDone(p.db, reqs \o p.reqs, p.count)
         IN  Popular(sync_popular_movies(
                         db, key, up.pageOk, up.results, w.limit, up.ins, now))
    ELSE IF w.sync_type = "search"
    THEN IF ~w.search_query THEN WizardRaise(db, "UserError", reqs)
         ELSE
         LET f == search_movies(key, up.pageOk, up.results)
             todo == PySlice(f.results, w.limit)
             Synced(r) ==
                 IF r.exc # "none"
                 THEN WizardRaise(r.db, r.exc, reqs \o f.reqs \o r.reqs)
                 ELSE WizardDone(r.db, reqs \o f.reqs \o r.reqs,
                                 Count(r.kinds, "movie"))
         IN  IF f.kind = "exc" THEN WizardRaise(db, f.exc, reqs \o f.reqs)
             ELSE IF f.kind = "none" \/ f.results = <<>>
             THEN WizardRaise(db, "UserError", reqs \o f.reqs)
             ELSE Synced(SyncEach(db, key, todo,
                                  SubSeq(up.ins, 1, Len(todo)), now))
    ELSE \* "specific"
         IF w.movie_id = 0 THEN WizardRaise(db, "UserError", reqs)
         ELSE
         LET Synced(r) ==
                 IF r.kind = "exc" THEN WizardRaise(r.db, r.exc, reqs \o r.reqs)
                 ELSE IF r.kind = "false"
                 THEN WizardRaise(r.db, "UserError", reqs \o r.reqs)
                 ELSE WizardDone(r.db, reqs \o r.reqs, 1)
         IN  Synced(sync_movie_from_tmdb(db, key, w.movie_id, up.ins[1], now))

action_sync_movies(db, key, w, up, now) ==
    IF w.sync_genres_first /\ w.sync_type # "genres_first"
    THEN LET Genres(g) ==
                 IF g.kind = "exc" THEN WizardRaise(g.db, g.exc, g.reqs)
                 ELSE SyncByType(g.db, key, w, up, g.reqs, now)
         IN  Genres(sync_genres_from_tmdb(db, key, w, up))
    ELSE SyncByType(db, key, w, up, <<>>, now)

\* _get_genres_data_from_tmdb: every failure, the missing key included,
\* is an empty list.
_get_genres_data_from_tmdb(key, up) ==
    IF ~key THEN [genres |-> <<>>, reqs |-> <<>>]
    ELSE IF ~up.genresOk THEN [genres |-> <<>>, reqs |-> <<"genres">>]
    ELSE [genres |-> up.genres, reqs |-> <<"genres">>]

\* preview_genres_count as left by one "if genre_data:" block; old when
\* the block does not assign.
PreviewGenresCount(db, w, genre_data, old) ==
    IF genre_data = <<>> THEN old
    ELSE IF w.sync_only_new_genres
    THEN LET existing_genres == Cardinality(DOMAIN db.genres)
         IN  IF Len(genre_data) > existing_genres
             THEN Len(genre_data) - existing_genres ELSE 0
    ELSE Len(genre_data)

PreviewRaise(db, exc, reqs, count) ==
    [db |-> db, kind |-> "exc", exc |-> exc, reqs |-> reqs, wizard_step |-> "same",
     preview_genres_count |-> count, movies |-> <<>>]

PreviewDone(db, reqs, count, movies) ==
    [db |-> db, kind |-> "done", exc |-> "none", reqs |-> reqs, wizard_step |-> "preview",
     preview_genres_count |-> count, movies |-> movies]

\* action_preview_sync; old is the wizard's preview_genres_count before.
\* Every exception leaves as a UserError that carries the message of the
\* one caught.
action_preview_sync(db, key, w, up, old) ==
    LET lead == IF w.sync_genres_first /\ w.sync_type # "genres_first"
                THEN _get_genres_data_from_tmdb(key, up)
                ELSE [genres |-> <<>>, reqs |-> <<>>]
        c1 == PreviewGenresCount(db, w, lead.genres, old)
    IN  IF w.sync_type = "genres_first"
        THEN LET g == _get_genres_data_from_tmdb(key, up)
             IN  PreviewDone(db, lead.reqs \o g.reqs,
                             PreviewGenresCount(db, w, g.genres, c1), <<>>)
        ELSE IF w.sync_type = "popular"
        THEN IF ~up.pageOk
             THEN PreviewRaise(db, "UserError", lead.reqs \o <<"popular">>, c1)
             ELSE PreviewDone(db, lead.reqs \o <<"popular">>, c1,
                              PySlice(up.results, w.limit))
        ELSE IF w.sync_type = "search"
        THEN IF ~w.search_query THEN PreviewRaise(db, "UserError", lead.reqs, c1)
             ELSE
             LET f == search_movies(key, up.pageOk, up.results)
             IN  IF f.kind = "exc"
                 THEN PreviewRaise(db, f.exc, lead.reqs \o f.reqs, c1)
                 ELSE IF f.kind = "none" \/ f.results = <<>>
                 THEN PreviewRaise(db, "UserError", lead.reqs \o f.reqs, c1)
                 ELSE PreviewDone(db, lead.reqs \o f.reqs, c1,
                                  PySlice(f.results, w.limit))
        ELSE \* "specific"
             IF w.movie_id = 0 THEN PreviewRaise(db, "UserError", lead.reqs, c1)
             ELSE IF ~key THEN PreviewRaise(db, NoApiKey, lead.reqs, c1)
             ELSE IF ~up.ins[1].detailsOk
             THEN PreviewRaise(db, "UserError", lead.reqs \o <<"details">>, c1)
             ELSE PreviewDone(db, lead.reqs \o <<"details">>, c1, <<w.movie_id>>)

(* --------------------------- computed fields --------------------------- *)
\* Faulty variant: an age of exactly 5 falls between the categories.
_compute_age_category_below(release_date, today) ==
    IF release_date = NoDate THEN FalseStr
    ELSE LET age == IF today >= release_date
                    THEN (today - release_date) \div 365 ELSE 0
         IN  IF age >= 30 THEN "Clasica"
             ELSE IF 5 < age /\ age < 30 THEN "Reciente"
             ELSE IF age < 5 THEN "Nueva"
             ELSE FalseStr

\* TMDBMovie._compute_age_category for one record; dates are day numbers.
_compute_age_category(release_date, today) ==
    IF release_date = NoDate THEN FalseStr
    ELSE LET age == IF today >= release_date
                    THEN (today - release_date) \div 365 ELSE 0
         IN  IF age >= 30 THEN "Clasica"
             ELSE IF 5 < age /\ age < 30 THEN "Reciente"
             ELSE IF age <= 5 THEN "Nueva"
             ELSE FalseStr

(* ---------------------------- Search Wizard ---------------------------- *)
max_pages == 50

\* wz is the form [limit, filter_popularity, minpopularity, maxpopularity];
\* a page entry is [id, popularity].
RECURSIVE _apply_client_side_filters(_, _)
_apply_client_side_filters(wz, movies_data) ==
    IF ~wz.filter_popularity THEN movies_data
    ELSE IF movies_data = <<>> THEN <<>>
    ELSE LET movie == Head(movies_data)
             rest == _apply_client_side_filters(wz, Tail(movies_data))
         IN  IF wz.minpopularity # 0 /\ movie.popularity < wz.minpopularity
             THEN rest
             ELSE IF wz.maxpopularity # 0 /\ movie.popularity > wz.maxpopularity
             THEN rest
             ELSE <<movie>> \o rest

\* What TMDB answers to the request for page p.  up is
\* [total_pages, perPage, failFrom, emptyFrom]: every page up to
\* total_pages holds the entries perPage, requests fail from page failFrom
\* on (0: never), and pages from emptyFrom on come back without results
\* (0: never).
PageAnswer(up, p) ==
    [ok |-> ~(up.failFrom # 0 /\ p >= up.failFrom),
     results |-> IF p <= up.total_pages
                    /\ ~(up.emptyFrom # 0 /\ p >= up.emptyFrom)
                 THEN up.perPage ELSE <<>>,
     total_pages |-> up.total_pages]

\* Faulty variant: the loop does not look at the limit.
ScanStepPastLimit(wz, up, s) ==
    IF s.done THEN s
    ELSE IF ~(s.current_page <= max_pages) THEN [s EXCEPT !.done = TRUE]
    ELSE
    LET ans == PageAnswer(up, s.current_page)
        more == s.all_movies_data
                    \o _apply_client_side_filters(wz, ans.results)
    IN  IF ~ans.ok
        THEN [s EXCEPT !.requests = @ + 1,
                       !.asked = Append(@, s.current_page),
                       !.done = TRUE,
                       !.exc = IF s.current_page = 1 THEN "UserError"
                               ELSE "none"]
        ELSE IF ans.results = <<>>
        THEN [s EXCEPT !.requests = @ + 1,
                       !.asked = Append(@, s.current_page),
                       !.done = TRUE]
        ELSE IF s.current_page >= ans.total_pages
        THEN [s EXCEPT !.requests = @ + 1,
                       !.asked = Append(@, s.current_page),
                       !.all_movies_data = more,
                       !.done = TRUE]
        ELSE [s EXCEPT !.requests = @ + 1,
                       !.asked = Append(@, s.current_page),
                       !.all_movies_data = more,
                       !.current_page = @ + 1]

\* Faulty variant: a failed request discards what was gathered, whatever the
\* page.
ScanStepDiscarding(wz, up, s) ==
    IF s.done THEN s
    ELSE IF ~(Len(s.all_movies_data) < wz.limit /\ s.current_page <= max_pages)
    THEN [s EXCEPT !.done = TRUE]
    ELSE
    LET ans == PageAnswer(up, s.current_page)
        more == s.all_movies_data
                    \o _apply_client_side_filters(wz, ans.results)
    IN  IF ~ans.ok
        THEN [s EXCEPT !.requests = @ + 1,
                       !.asked = Append(@, s.current_page),
                       !.done = TRUE, !.exc = "UserError"]
        ELSE IF ans.results = <<>>
        THEN [s EXCEPT !.requests = @ + 1,
                       !.asked = Append(@, s.current_page),
                       !.done = TRUE]
        ELSE IF s.current_page >= ans.total_pages
        THEN [s EXCEPT !.requests = @ + 1,
                       !.asked = Append(@, s.current_page),
                       !.all_movies_data = more, !.done = TRUE]
        ELSE [s EXCEPT !.requests = @ + 1,
                       !.asked = Append(@, s.current_page),
                       !.all_movies_data = more, !.current_page = @ + 1]

\* One pass of the while loop of search_tmdb_movies: the test of the loop
\* condition and, when it holds, the body.  s holds the loop's variables,
\* the number of requests sent so far, done once the loop has been left
\* (condition false or break) and the error raised out of the loop, if any.
ScanStep(wz, up, s) ==
    IF s.done THEN s
    ELSE IF ~(Len(s.all_movies_data) < wz.limit /\ s.current_page <= max_pages)
    THEN [s EXCEPT !.done = TRUE]
    ELSE
    LET ans == PageAnswer(up, s.current_page)
        more == s.all_movies_data
                    \o _apply_client_side_filters(wz, ans.results)
    IN  IF ~ans.ok
        THEN [s EXCEPT !.requests = @ + 1,
                       !.asked = Append(@, s.current_page),
                       !.done = TRUE,
                       !.exc = IF s.current_page = 1 THEN "UserError"
                               ELSE "none"]
        ELSE IF ans.results = <<>>
        THEN [s EXCEPT !.requests = @ + 1,
                       !.asked = Append(@, s.current_page),
                       !.done = TRUE]
        ELSE IF s.current_page >= ans.total_pages
        THEN [s EXCEPT !.requests = @ + 1,
                       !.asked = Append(@, s.current_page),
                       !.all_movies_data = more,
                       !.done = TRUE]
        ELSE [s EXCEPT !.requests = @ + 1,
                       !.asked = Append(@, s.current_page),
                       !.all_movies_data = more,
                       !.current_page = @ + 1]

\* n passes of the loop from s on, the first half before the second.
RECURSIVE ScanRun(_, _, _, _)
ScanRun(wz, up, s, n) ==
    IF n = 1 THEN ScanStep(wz, up, s)
    ELSE LET Then(half) == IF half.done THEN half
                           ELSE ScanRun(wz, up, half, n - n \div 2)
         IN  Then(ScanRun(wz, up, s, n \div 2))

\* Passes the loop is followed for: one more than the pages it may ask for.
ScanPasses == max_pages + 1

\* The while loop of search_tmdb_movies from page current_page on; pages is
\* the number of requests sent, done whether the loop was left within
\* ScanPasses passes.
ScanPages(wz, up, all_movies_data, current_page) ==
    LET Left(s) == [data |-> s.all_movies_data, pages |-> s.requests,
                    asked |-> s.asked, exc |-> s.exc, done |-> s.done]
    IN  Left(ScanRun(wz, up,
                     [all_movies_data |-> all_movies_data,
                      current_page |-> current_page, requests |-> 0,
                      asked |-> <<>>, done |-> FALSE, exc |-> "none"],
                     ScanPasses))

\* TMDBSearchResult._compute_exists_in_local
_compute_exists_in_local(ms, tmdb_id) == SearchMovies(ms, tmdb_id) # {}

\* Faulty variant: the scan hands its first candidate to the reconciler.
search_tmdb_movies_syncing(db, key, wz, up) ==
    IF ~key
    THEN [db |-> db, kind |-> "exc", exc |-> NoApiKey, pages |-> 0, asked |-> <<>>,
          found |-> <<>>]
    ELSE
    LET Scanned(r) ==
            [db |-> IF r.data = <<>> THEN db
                    ELSE MovieCreateUnchecked(
                             db, {}, [tmdb_id |-> r.data[1].id], 0).db,
             kind |-> "results", exc |-> "none", pages |-> r.pages, asked |-> r.asked,
             found |-> PySlice(r.data, wz.limit)]
    IN  Scanned(ScanPages(wz, up, <<>>, 1))

\* db is handed back as it was received: the scan and _show_tmdb_results
\* write tmdb.search.result rows only.
search_tmdb_movies(db, key, wz, up) ==
    IF ~key
    THEN [db |-> db, kind |-> "exc", exc |-> NoApiKey, pages |-> 0, asked |-> <<>>,
          found |-> <<>>]
    ELSE
    LET Final(r, final_movies_data) ==
            IF ~r.done
            THEN [db |-> db, kind |-> "looping", exc |-> "none",
                  pages |-> r.pages, asked |-> r.asked, found |-> <<>>]
            ELSE IF r.exc # "none"
            THEN [db |-> db, kind |-> "exc", exc |-> r.exc, pages |-> r.pages, asked |-> r.asked,
                  found |-> <<>>]
            ELSE IF final_movies_data = <<>>
            THEN [db |-> db, kind |-> "exc", exc |-> "UserError",
                  pages |-> r.pages, asked |-> r.asked, found |-> <<>>]
            ELSE [db |-> db, kind |-> "results", exc |-> "none",
                  pages |-> r.pages, asked |-> r.asked, found |-> final_movies_data]
        Scanned(r) == Final(r, PySlice(r.data, wz.limit))
    IN  Scanned(ScanPages(wz, up, <<>>, 1))

(* ------------------------- Data Cleanup Wizard ------------------------- *)
\* str.lower() on the characters titles are made of.
Lower(c) ==
    IF c = "T" THEN "t" ELSE IF c = "X" THEN "x" ELSE IF c = "A" THEN "a" ELSE c

LowerSeq(t) == [i \in DOMAIN t |-> Lower(t[i])]

IsPrefix(p, t) == Len(p) <= Len(t) /\ SubSeq(t, 1, Len(p)) = p

\* str.replace(old, new): left to right, matches do not overlap.
RECURSIVE Replace(_, _, _)
Replace(t, old, new) ==
    IF t = <<>> THEN <<>>
    ELSE IF IsPrefix(old, t)
    THEN new \o Replace(SubSeq(t, Len(old) + 1, Len(t)), old, new)
    ELSE <<Head(t)>> \o Replace(Tail(t), old, new)

Punctuation == {".", ",", "!", "?", ";", ":"}

RECURSIVE DropChars(_, _)
DropChars(t, chars) ==
    IF t = <<>> THEN <<>>
    ELSE IF Head(t) \in chars THEN DropChars(Tail(t), chars)
    ELSE <<Head(t)>> \o DropChars(Tail(t), chars)

\* " ".join(t.split())
RECURSIVE JoinSplit(_)
JoinSplit(t) ==
    IF t = <<>> THEN <<>>
    ELSE IF Head(t) = " " THEN JoinSplit(Tail(t))
    ELSE LET stops == {i \in DOMAIN t : t[i] = " "}
             n == IF stops = {} THEN Len(t) + 1
                  ELSE CHOOSE i \in stops : \A j \in stops : i <= j
             rest == JoinSplit(SubSeq(t, n, Len(t)))
         IN  IF rest = <<>> THEN SubSeq(t, 1, n - 1)
             ELSE SubSeq(t, 1, n - 1) \o <<" ">> \o rest

_normalize_title(title) ==
    IF title = <<>> THEN <<>>
    ELSE
    LET n0 == LowerSeq(title)
        n1 == Replace(Replace(n0, <<"t", "h", "e", " ">>, <<>>),
                      <<" ", "t", "h", "e">>, <<>>)
        n2 == Replace(Replace(n1, <<"a", " ">>, <<>>), <<" ", "a">>, <<>>)
        n3 == Replace(Replace(n2, <<"a", "n", " ">>, <<>>),
                      <<" ", "a", "n">>, <<>>)
    IN  JoinSplit(DropChars(n3, Punctuation))

\* release_date.year of a day number.
YearOf(d) == d \div 365

\* _order = "title": the order search() returns rows in; equal titles
\* come in id order.
CharRank(c) ==
    CHOOSE k \in 1..9 :
        <<" ", ":", "A", "T", "X", "a", "e", "h", "x">>[k] = c

RECURSIVE TitleLess(_, _)
TitleLess(a, b) ==
    IF b = <<>> THEN FALSE
    ELSE IF a = <<>> THEN TRUE
    ELSE IF Head(a) = Head(b) THEN TitleLess(Tail(a), Tail(b))
    ELSE CharRank(Head(a)) < CharRank(Head(b))

Before(ms, i, j) ==
    \/ TitleLess(ms[i].title, ms[j].title)
    \/ (ms[i].title = ms[j].title /\ i < j)

RECURSIVE Ordered(_, _)
Ordered(ms, S) ==
    IF S = {} THEN <<>>
    ELSE LET first == CHOOSE i \in S : \A j \in S \ {i} : Before(ms, i, j)
         IN  <<first>> \o Ordered(ms, S \ {first})

\* The ways a GROUP BY without ORDER BY can list the keys K.
Orderings(K) ==
    {o \in [1..Cardinality(K) -> K] : \A i, j \in DOMAIN o : o[i] = o[j] => i = j}

TmdbIdKeys(ms) ==
    {ms[i].tmdb_id : i \in {i \in DOMAIN ms :
        Cardinality(SearchMovies(ms, ms[i].tmdb_id)) > 1}}

SameTitleDate(ms, key) ==
    {i \in DOMAIN ms : ms[i].title = key[1] /\ ms[i].release_date = key[2]}

TitleDateKeys(ms) ==
    {k \in {<<ms[i].title, ms[i].release_date>> : i \in DOMAIN ms} :
        k[1] # <<>> /\ Cardinality(SameTitleDate(ms, k)) > 1}

\* Faulty variant: every group is cut down to its first two rows.
_find_tmdb_id_pairs(ms, keys) ==
    [k \in DOMAIN keys |-> Take(Ordered(ms, SearchMovies(ms, keys[k])), 2)]

\* keys is the order in which the GROUP BY query listed the duplicated ids.
_find_tmdb_id_duplicates(ms, keys) ==
    [k \in DOMAIN keys |-> Ordered(ms, SearchMovies(ms, keys[k]))]

_find_title_date_duplicates(ms, keys) ==
    [k \in DOMAIN keys |-> Ordered(ms, SameTitleDate(ms, keys[k]))]

RECURSIVE Ascending(_)
Ascending(S) ==
    IF S = {} THEN <<>>
    ELSE LET least == CHOOSE i \in S : \A j \in S : i <= j
         IN  <<least>> \o Ascending(S \ {least})

\* Groups of the sequence q by the value f[x] of its elements, in order of
\* first appearance (the insertion order of a dict), each group in the
\* order of q.
GroupBy(q, f) ==
    LET firsts == Ascending({i \in DOMAIN q :
                      \A j \in 1..(i - 1) : f[q[j]] # f[q[i]]})
    IN  [k \in DOMAIN firsts |->
            LET Same(x) == f[x] = f[q[firsts[k]]]
            IN  SelectSeq(q, Same)]

RECURSIVE Flatten(_)
Flatten(qq) == IF qq = <<>> THEN <<>> ELSE Head(qq) \o Flatten(Tail(qq))

_find_similar_title_duplicates(ms) ==
    LET movies_with_dates ==
            Ordered(ms, {i \in DOMAIN ms : ms[i].release_date # NoDate})
        Year == [i \in DOMAIN ms |-> YearOf(ms[i].release_date)]
        Norm == [i \in DOMAIN ms |-> _normalize_title(ms[i].title)]
        year_groups == GroupBy(movies_with_dates, Year)
        Big(g) == Len(g) > 1
        PerYear(movies) ==
            IF Len(movies) < 2 THEN <<>>
            ELSE SelectSeq(GroupBy(movies, Norm), Big)
    IN  Flatten([y \in DOMAIN year_groups |-> PerYear(year_groups[y])])

\* Faulty variant: among equal scores the last member wins.
MaxByLast(group, score) ==
    LET best == Max({score[group[i]] : i \in DOMAIN group})
    IN  group[CHOOSE i \in DOMAIN group :
                 /\ score[group[i]] = best
                 /\ \A j \in (i + 1)..Len(group) : score[group[j]] # best]

\* Python max(group, key=score): the first element with the largest score.
MaxBy(group, score) ==
    LET best == Max({score[group[i]] : i \in DOMAIN group})
    IN  group[CHOOSE i \in DOMAIN group :
                 /\ score[group[i]] = best
                 /\ \A j \in 1..(i - 1) : score[group[j]] # best]

completeness_score(movie) ==
    (IF movie.overview # FalseStr THEN 1 ELSE 0)
    + (IF movie.director # FalseStr THEN 1 ELSE 0)
    + (IF movie.poster_path # FalseStr THEN 1 ELSE 0)
    + (IF movie.backdrop_path # FalseStr THEN 1 ELSE 0)
    + Cardinality(movie.genre_ids)
    + (IF movie.vote_count # 0 THEN 1 ELSE 0)

_get_most_complete_record(ms, movies) ==
    MaxBy(movies, [i \in DOMAIN ms |-> completeness_score(ms[i])])

_is_recommended_keep(ms, keep_preference, movie, duplicate_group) ==
    IF keep_preference = "newest"
    THEN movie = MaxBy(duplicate_group, [i \in DOMAIN ms |-> ms[i].create_date])
    ELSE IF keep_preference = "most_complete"
    THEN movie = _get_most_complete_record(ms, duplicate_group)
    ELSE IF keep_preference = "highest_rating"
    THEN movie = MaxBy(duplicate_group, [i \in DOMAIN ms |-> ms[i].vote_average])
    ELSE FALSE

\* The wizard lines of the groups from number n on; a line is
\* [id, movie_id, group_number, is_recommended_keep] and ids follow the
\* order of creation.
RECURSIVE GroupLines(_, _, _, _, _)
GroupLines(ms, keep_preference, duplicates, n, next_id) ==
    IF duplicates = <<>> THEN <<>>
    ELSE LET duplicate_group == Head(duplicates)
         IN  [k \in DOMAIN duplicate_group |->
                 [id |-> next_id + k - 1,
                  movie_id |-> duplicate_group[k],
                  group_number |-> n,
                  is_recommended_keep |->
                      _is_recommended_keep(ms, keep_preference,
                                           duplicate_group[k], duplicate_group)]]
             \o GroupLines(ms, keep_preference, Tail(duplicates), n + 1,
                           next_id + Len(duplicate_group))

\* tmdb_keys and title_keys are the orders in which the two GROUP BY
\* queries listed their rows.  The result is the wizard's new lines.
action_detect_duplicates(ms, detection_criteria, keep_preference, tmdb_keys, title_keys) ==
    LET d1 == IF detection_criteria \in {"tmdb_id", "all"}
              THEN _find_tmdb_id_duplicates(ms, tmdb_keys) ELSE <<>>
        d2 == IF detection_criteria \in {"title_date", "all"}
              THEN _find_title_date_duplicates(ms, title_keys) ELSE <<>>
        d3 == IF detection_criteria \in {"title_similar", "all"}
              THEN _find_similar_title_duplicates(ms) ELSE <<>>
        duplicates == d1 \o d2 \o d3
    IN  [lines |-> GroupLines(ms, keep_preference, duplicates, 1, 1),
         duplicate_count |-> Len(duplicates)]

\* update_vals[f] = v
Assign(update_vals, f, v) ==
    [g \in DOMAIN update_vals \cup {f} |-> IF g = f THEN v ELSE update_vals[g]]

\* The loop of _merge_movie_data over the source movies; acc is
\* [vals, genres]: update_vals and current_genre_ids so far.
RECURSIVE MergeFields(_, _, _)
MergeFields(target_movie, source_movies, acc) ==
    IF source_movies = <<>> THEN acc
    ELSE
    LET source_movie == Head(source_movies)
        v1 == IF target_movie.overview = FalseStr
                 /\ source_movie.overview # FalseStr
              THEN Assign(acc.vals, "overview", source_movie.overview)
              ELSE acc.vals
        v2 == IF target_movie.director = FalseStr
                 /\ source_movie.director # FalseStr
              THEN Assign(Assign(v1, "director", source_movie.director),
                          "director_id", source_movie.director_id)
              ELSE v1
        v3 == IF target_movie.poster_path = FalseStr
                 /\ source_movie.poster_path # FalseStr
              THEN Assign(v2, "poster_path", source_movie.poster_path)
              ELSE v2
        v4 == IF target_movie.backdrop_path = FalseStr
                 /\ source_movie.backdrop_path # FalseStr
              THEN Assign(v3, "backdrop_path", source_movie.backdrop_path)
              ELSE v3
        v5 == IF source_movie.vote_count # 0
                 /\ source_movie.vote_count > target_movie.vote_count
              THEN Assign(Assign(v4, "vote_count", source_movie.vote_count),
                          "vote_average", source_movie.vote_average)
              ELSE v4
    IN  MergeFields(target_movie, Tail(source_movies),
                    [vals |-> v5,
                     genres |-> acc.genres \cup source_movie.genre_ids])

\* Faulty variant: the first source's text fields are written over the
\* target's, blank or not.
_merge_movie_data_overwriting(db, target, sources) ==
    IF sources = <<>> THEN [db |-> db, ids |-> {target}, exc |-> "none"]
    ELSE LET source_movie == db.movies[sources[1]]
         IN  MovieWrite(db, {}, {target},
                        [overview |-> source_movie.overview,
                         director |-> source_movie.director,
                         director_id |-> source_movie.director_id,
                         poster_path |-> source_movie.poster_path,
                         backdrop_path |-> source_movie.backdrop_path])

\* target and sources are movie ids.
_merge_movie_data(db, target, sources) ==
    IF sources = <<>> THEN [db |-> db, ids |-> {target}, exc |-> "none"]
    ELSE
    LET target_movie == db.movies[target]
        Update(update_vals) ==
            IF DOMAIN update_vals = {}
            THEN [db |-> db, ids |-> {target}, exc |-> "none"]
            ELSE MovieWrite(db, {}, {target}, update_vals)
        Merged(m) ==
            Update(IF m.genres # target_movie.genre_ids
                   THEN Assign(m.vals, "genre_ids", m.genres)
                   ELSE m.vals)
    IN  Merged(MergeFields(target_movie,
                           [k \in DOMAIN sources |-> db.movies[sources[k]]],
                           [vals |-> <<>>, genres |-> target_movie.genre_ids]))

\* The wizard lines grouped by group_number, in line order.
LineGroups(lines) ==
    GroupBy(lines, [l \in Range(lines) |-> l.group_number])

\* A line is deleted with its movie (the many2one of a transient model
\* cascades); reading a field of a deleted line raises MissingError.
Gone(db, lines) == \E k \in DOMAIN lines : lines[k].movie_id \notin DOMAIN db.movies

\* Faulty variant: with no line flagged, the first line counts as flagged.
RecommendedOrFirst(lines) ==
    LET Keep(l) == l.is_recommended_keep
    IN  IF SelectSeq(lines, Keep) = <<>> THEN Take(lines, 1)
        ELSE SelectSeq(lines, Keep)

Recommended(lines) ==
    LET Keep(l) == l.is_recommended_keep
    IN  SelectSeq(lines, Keep)

\* The loop of _merge_duplicates over the groups left to do.  log has one
\* entry per group reached: its lines, the movie kept, what happened, and
\* the movie table before and after.
RECURSIVE MergeGroups(_, _, _, _)
MergeGroups(db, groups, keep_preference, processed) ==
    IF groups = <<>>
    THEN [db |-> db, processed |-> processed, exc |-> "none", log |-> <<>>]
    ELSE
    LET lines == Head(groups)
        recommended_lines == Recommended(lines)
        keep_line == IF recommended_lines = <<>> THEN lines[1]
                     ELSE recommended_lines[1]
        Other(l) == l.id # keep_line.id
        others == SelectSeq(lines, Other)
        movies_to_remove == [k \in DOMAIN others |-> others[k].movie_id]
        Entry(what, keep, post) ==
            [lines |-> lines, keep |-> keep, what |-> what,
             pre |-> db.movies, post |-> post.movies]
        Logged(entry, rest) == [rest EXCEPT !.log = <<entry>> \o @]
        Skip(what) ==
            Logged(Entry(what, NoId, db),
                   MergeGroups(db, Tail(groups), keep_preference, processed))
        Unlinked(db1) ==
            Logged(Entry("merged", keep_line.movie_id, db1),
                   MergeGroups(db1, Tail(groups), keep_preference,
                               processed + 1))
        Merged(m, removed) ==
            IF m.exc # "none"
            THEN Logged(Entry("raised", keep_line.movie_id, db),
                        MergeGroups(db, Tail(groups), keep_preference,
                                    processed))
            ELSE Unlinked(MovieUnlink(m.db, Range(removed)))
        Merge(removed) ==
            Merged(_merge_movie_data(db, keep_line.movie_id, removed), removed)
    IN  IF Len(lines) < 2
        THEN Skip("single")
        ELSE IF Gone(db, lines)
        THEN [db |-> db, processed |-> processed, exc |-> "MissingError",
              log |-> <<Entry("missing", NoId, db)>>]
        ELSE IF keep_preference = "manual" /\ recommended_lines = <<>>
        THEN Skip("unflagged")
        ELSE Merge(movies_to_remove)

\* The loop of _delete_duplicates.
RECURSIVE DeleteGroups(_, _, _)
DeleteGroups(db, groups, processed) ==
    IF groups = <<>>
    THEN [db |-> db, processed |-> processed, exc |-> "none", log |-> <<>>]
    ELSE
    LET lines == Head(groups)
        Drop(l) == ~l.is_recommended_keep
        dropped == SelectSeq(lines, Drop)
        movies_to_delete == {dropped[k].movie_id : k \in DOMAIN dropped}
        Entry(what, post) ==
            [lines |-> lines, keep |-> NoId, what |-> what,
             pre |-> db.movies, post |-> post.movies]
        Logged(entry, rest) == [rest EXCEPT !.log = <<entry>> \o @]
        Deleted(db1) ==
            Logged(Entry("deleted", db1),
                   DeleteGroups(db1, Tail(groups), processed + Len(dropped)))
    IN  IF Len(lines) < 2
        THEN Logged(Entry("single", db),
                    DeleteGroups(db, Tail(groups), processed))
        ELSE IF Gone(db, lines)
        THEN [db |-> db, processed |-> processed, exc |-> "MissingError",
              log |-> <<Entry("missing", db)>>]
        ELSE Deleted(MovieUnlink(db, movies_to_delete))

\* The lines that are left when movies were unlinked.
Cascade(db, lines) ==
    LET Alive(l) == l.movie_id \in DOMAIN db.movies
    IN  SelectSeq(lines, Alive)

\* Faulty variant: no check for lines, and the lines and the count are
\* left as they are when the processing is done.
action_process_without_reset(db, lines, count, action_type, keep_preference) ==
    LET Processed(r) ==
            [db |-> r.db, lines |-> Cascade(r.db, lines),
             duplicate_count |-> count,
             kind |-> IF r.exc # "none" THEN "exc" ELSE "done",
             exc |-> r.exc, processed |-> r.processed, log |-> r.log]
    IN  Processed(IF action_type = "merge"
                  THEN MergeGroups(db, LineGroups(lines), keep_preference, 0)
                  ELSE DeleteGroups(db, LineGroups(lines), 0))

\* lines are the wizard's duplicate_line_ids.
action_process_duplicates(db, lines, count, action_type, keep_preference) ==
    IF lines = <<>>
    THEN [db |-> db, lines |-> lines, duplicate_count |-> count,
          kind |-> "exc", exc |-> "UserError", processed |-> 0, log |-> <<>>]
    ELSE
    LET Processed(r) ==
            IF r.exc # "none"
            THEN [db |-> r.db, lines |-> Cascade(r.db, lines),
                  duplicate_count |-> count, kind |-> "exc",
                  exc |-> r.exc, processed |-> r.processed, log |-> r.log]
            ELSE [db |-> r.db, lines |-> <<>>, duplicate_count |-> 0,
                  kind |-> "done", exc |-> "none",
                  processed |-> r.processed, log |-> r.log]
    IN  Processed(IF action_type = "merge"
                  THEN MergeGroups(db, LineGroups(lines), keep_preference, 0)
                  ELSE DeleteGroups(db, LineGroups(lines), 0))

(* ----------------------------- TMDB stub -------------------------------- *)
\* Titles are sequences of characters.
TitleTheX == <<"T", "h", "e", " ", "X">>
TitleX == <<"x">>

Genre(i) == [id |-> i, name |-> IF i = 1 THEN "Action" ELSE "Drama"]

\* A fully populated details document; the two external ids carry titles
\* that differ only by article and case.
Rich(id) ==
    [id |-> id, title |-> IF id = 1 THEN TitleTheX ELSE TitleX,
     overview |-> "plot",
     release_date |-> Today - 400, vote_average |-> 7, vote_count |-> 9,
     poster_path |-> "/p.jpg", backdrop_path |-> "/b.jpg",
     genres |-> <<Genre(1), Genre(2)>>]

\* A document with every optional field absent or empty.
Poor(id) ==
    [id |-> id, title |-> TitleX, overview |-> NoneStr,
     release_date |-> NoneInt, vote_average |-> NoneInt, vote_count |-> NoneInt,
     poster_path |-> "", backdrop_path |-> NoneStr,
     genres |-> <<>>]

\* Documents that violate one write-time constraint each.
BadDetails(id) ==
    {[Rich(id) EXCEPT !.vote_average = 11, !.genres = <<Genre(2)>>],
     [Rich(id) EXCEPT !.vote_count = 0 - 1, !.genres = <<Genre(2)>>],
     [Rich(id) EXCEPT !.release_date = Today + 1, !.genres = <<Genre(2)>>]}

DetailsFor(id) == {Rich(id), Poor(id)} \cup BadDetails(id)

Crew(job, name, path) == [job |-> job, name |-> name, profile_path |-> path]
Cast(name, pop, path) == [name |-> name, popularity |-> pop, profile_path |-> path]

CreditsEmpty == [crew |-> <<>>, cast |-> <<>>]

\* Two directors, and six cast entries of which the least popular is the
\* only one for "Ann".
CreditsA ==
    [crew |-> <<Crew("Producer", "Pat", NoneStr),
                Crew("Director", "Ann", NoneStr),
                Crew("Director", "Bob", NoneStr)>>,
     cast |-> <<Cast("Ann", 1, NoneStr), Cast("Bob", 5, NoneStr),
                Cast("Bob", 5, NoneStr), Cast(NoneStr, 9, NoneStr),
                Cast("Bob", 2, NoneStr), Cast("Bob", 2, NoneStr)>>]

CreditsB == [crew |-> <<>>, cast |-> <<Cast("Ann", 3, NoneStr)>>]

CreditsDocs == {CreditsEmpty, CreditsA, CreditsB}

\* What one sync_movie_from_tmdb call can receive.  The inputs a failed
\* request never looks at are fixed, so that every input stands for a
\* different run of the call.
In(d, dOk, c, ok1, ok2) ==
    [details |-> d, detailsOk |-> dOk, credits |-> c,
     creditsOk1 |-> ok1, creditsOk2 |-> ok2, cdn |-> {}]

DetailsFail(id) == In(Poor(id), FALSE, CreditsEmpty, FALSE, FALSE)

CreditsFail(d) == In(d, TRUE, CreditsEmpty, FALSE, FALSE)

SyncInputs(id) ==
    {DetailsFail(id)}
    \cup {CreditsFail(d) : d \in DetailsFor(id)}
    \cup {In(d, TRUE, c, TRUE, TRUE) :
            d \in {Rich(id), Poor(id)}, c \in CreditsDocs}
    \cup {In(d, TRUE, CreditsA, ok[1], ok[2]) :
            d \in {Rich(id), Poor(id)},
            ok \in {<<TRUE, FALSE>>, <<FALSE, TRUE>>}}
    \cup {In(d, TRUE, CreditsA, TRUE, TRUE) : d \in BadDetails(id)}

\* The inputs of the other handlers.
CoreInputs(id) ==
    {In(Rich(id), TRUE, CreditsB, TRUE, TRUE), CreditsFail(Poor(id)),
     DetailsFail(id)}

OkIn(id) == In(Rich(id), TRUE, CreditsB, TRUE, TRUE)

\* The answers by requested id.
SyncInputsOf == [id \in TmdbIds |-> SyncInputs(id)]

CoreInputsOf == [id \in TmdbIds |-> CoreInputs(id)]

BadIn(id) ==
    In([Rich(id) EXCEPT !.vote_average = 11, !.genres = <<Genre(2)>>],
       TRUE, CreditsEmpty, TRUE, TRUE)

\* One call of the Person Resolver: the name and profile path taken from a
\* credits entry, the role asked for, and whether the image CDN serves the
\* profile path.
ResolveCalls ==
    [name : {"Ann", "Bob", NoneStr, ""},
     flag : {"is_director", "is_actor"},
     profile_path : {NoneStr, "/a.jpg", "/b.jpg"},
     served : BOOLEAN]

\* Credits whose people carry profile paths.
CreditsP ==
    [crew |-> <<Crew("Director", "Ann", "/a.jpg")>>,
     cast |-> <<Cast("Bob", 3, "/b.jpg"), Cast("Ann", 1, NoneStr)>>]

\* The answers to a sync whose credits carry profile paths; cdn are the
\* paths the image CDN serves.
PersonInputs(id) ==
    {[In(Rich(id), TRUE, CreditsP, TRUE, TRUE) EXCEPT !.cdn = cdn] :
        cdn \in {{}, {"/a.jpg"}, {"/a.jpg", "/b.jpg"}}}

PersonInputsOf == [id \in TmdbIds |-> PersonInputs(id)]

\* One call of sync_popular_movies: the answer to the page request, the ids
\* on the page, the limit argument and the answers for each entry.
PopularCall(pageOk, results, limit, ins) ==
    [pageOk |-> pageOk, results |-> results, limit |-> limit, ins |-> ins]

Page3 == <<1, 2, 1>>

\* The answers for the entries of a page; good[k] tells whether the
\* details request for entry k succeeds.
EntryAnswers(results, good) ==
    [k \in DOMAIN results |->
        IF good[k] THEN OkIn(results[k]) ELSE DetailsFail(results[k])]

PopularCalls ==
    {PopularCall(TRUE, Page3, l, EntryAnswers(Page3, good)) :
        l \in {2, 3}, good \in [1..3 -> BOOLEAN]}
    \cup {PopularCall(TRUE, Page3, l, <<OkIn(1), OkIn(2), OkIn(1)>>) :
            l \in {0 - 1, 0, 4}}
    \cup {PopularCall(TRUE, Page3, 3, <<OkIn(1), BadIn(2), OkIn(1)>>),
          PopularCall(TRUE, Page3, 3,
                      <<CreditsFail(Poor(1)), DetailsFail(2), OkIn(1)>>),
          PopularCall(TRUE, <<>>, 3, <<>>),
          PopularCall(FALSE, <<>>, 3, <<>>)}

CorePopularCalls ==
    {PopularCall(TRUE, <<1, 2>>, 2, <<OkIn(1), OkIn(2)>>),
     PopularCall(TRUE, <<1, 2>>, 2, <<CreditsFail(Poor(1)), CreditsFail(Poor(2))>>),
     PopularCall(TRUE, <<1, 2>>, 1, <<DetailsFail(1), OkIn(2)>>),
     PopularCall(FALSE, <<>>, 2, <<>>)}

\* Answers to GET /genre/movie/list.
G(id, name) == [id |-> id, name |-> name]

GenreLists ==
    {<<>>,
     <<G(1, "Action"), G(2, "Drama")>>,
     <<G(2, "Drame"), G(3, "Comedy"), G(1, "Aktion")>>,
     <<G(3, "Comedy"), G(2, "Drame"), G(3, "Komedy")>>,
     <<G(2, NoneStr), G(3, "Comedy")>>,
     <<G(3, "Comedy"), G(1, NoneStr)>>}

CoreGenreLists == {<<>>, <<G(2, "Drame"), G(3, "Comedy")>>}

\* Details documents whose genre list repeats an id, with the same name and
\* with another one, for ids the genre syncs know and do not know.
GenreTagged(id) ==
    {In([Rich(id) EXCEPT !.genres = gs], TRUE, CreditsEmpty, TRUE, TRUE) :
        gs \in {<<Genre(2), Genre(1), Genre(2)>>,
                <<G(3, "Comedy"), G(3, "Komedy")>>}}

GenreTaggedOf == [id \in TmdbIds |-> GenreTagged(id)]

\* The sync wizard form and the answers of one run.
Form(sync_type, genres_first, only_new, query, movie_id, limit) ==
    [sync_type |-> sync_type, sync_genres_first |-> genres_first,
     sync_only_new_genres |-> only_new, search_query |-> query,
     movie_id |-> movie_id, limit |-> limit]

Up(genresOk, genres, pageOk, results, ins) ==
    [genresOk |-> genresOk, genres |-> genres, pageOk |-> pageOk,
     results |-> results, ins |-> ins]

UpCore == Up(TRUE, <<G(2, "Drame"), G(3, "Comedy")>>, TRUE, <<1, 2>>,
             <<OkIn(1), OkIn(2)>>)

WizardCalls ==
    {[w |-> Form("popular", TRUE, FALSE, FALSE, 0, 2), up |-> UpCore],
     [w |-> Form("search", FALSE, FALSE, TRUE, 0, 2), up |-> UpCore],
     [w |-> Form("search", FALSE, FALSE, FALSE, 0, 2), up |-> UpCore],
     [w |-> Form("specific", TRUE, TRUE, FALSE, 1, 1), up |-> UpCore],
     [w |-> Form("specific", FALSE, FALSE, FALSE, 2, 1),
      up |-> [UpCore EXCEPT !.ins = <<DetailsFail(2)>>]],
     [w |-> Form("genres_first", TRUE, FALSE, FALSE, 0, 2), up |-> UpCore]}

\* TMDB answers 401 to a request that carries no api_key.
AsAnswered(key, up) ==
    IF key THEN up ELSE [up EXCEPT !.genresOk = FALSE, !.pageOk = FALSE]

\* The search wizard form and the pages TMDB holds.
SearchForm(limit, filter_popularity, minpopularity, maxpopularity) ==
    [limit |-> limit, filter_popularity |-> filter_popularity,
     minpopularity |-> minpopularity, maxpopularity |-> maxpopularity]

Hit(id, popularity) == [id |-> id, popularity |-> popularity]

SearchCalls ==
    {[wz |-> SearchForm(3, FALSE, 0, 0),
      up |-> [total_pages |-> 2, perPage |-> <<Hit(1, 5), Hit(2, 9)>>,
              failFrom |-> 0, emptyFrom |-> 0]],
     [wz |-> SearchForm(3, TRUE, 6, 0),
      up |-> [total_pages |-> 3, perPage |-> <<Hit(1, 5), Hit(2, 9)>>,
              failFrom |-> 2, emptyFrom |-> 0]],
     [wz |-> SearchForm(1, FALSE, 0, 0),
      up |-> [total_pages |-> 1, perPage |-> <<>>, failFrom |-> 1,
              emptyFrom |-> 0]]}

\* Forms and upstreams for the page scan: limits below, at and far above
\* what the pages hold, a popularity filter that drops none, one or all of
\* a page's entries, 1, 3 or 60 pages, pages that come back empty or fail.
ScanCalls ==
    [wz : {SearchForm(limit, min # 0, min, 0) :
              limit \in {0, 1, 3, 200}, min \in {0, 6, 10}},
     up : [total_pages : {1, 3, 60},
           perPage : {<<Hit(1, 5), Hit(2, 9)>>},
           failFrom : {0, 1, 3},
           emptyFrom : {0, 2}]]

\* Values a user saves on the movie form.
FormMovies ==
    {[tmdb_id |-> id, title |-> TitleX, vote_average |-> va] :
        id \in TmdbIds, va \in {6, 11}}

\* Release dates around every whole number of 365-day years up to 31, a
\* missing date and a date after today.
ReleaseDates ==
    {NoDate, Today + 1}
        \cup {Today - (365 * y + d) : y \in 0..31, d \in {0, 1, 364}}

\* Titles for the normalizer: every string of up to four characters over
\* 'a', 'x' and the space, and titles with capitals, punctuation and the
\* three articles at the start, at the end and inside another word.
RECURSIVE Strings(_, _)
Strings(chars, n) ==
    IF n = 0 THEN {<<>>}
    ELSE LET shorter == Strings(chars, n - 1)
         IN  shorter \cup {<<c>> \o s : c \in chars, s \in shorter}

Titles ==
    Strings({"a", "x", " "}, 4)
        \cup {TitleTheX, TitleX, <<"X", " ", "t", "h", "e">>,
              <<"A", " ", "x">>, <<"A", "n", " ", "x">>,
              <<"x", ".", " ", "X", "!">>, <<"x", " ", " ", "x", "?">>,
              <<"x", "t", "h", "e", " ", "x">>,
              <<"x", "a", "n", " ", "x">>, <<"t", "h", "e">>}

(* ------------------- rows stored behind the ORM ------------------------ *)
\* A tmdb_movie table that was filled directly in the store, with the
\* tmdb_id_unique constraint not installed and no validator run: the
\* tables the cleanup wizard is for.  Row ids follow the order of insertion.
TitleA == <<"A">>

DayOne == Today - 400
DayTwo == Today - 399

StoredPartners ==
    <<[name |-> "Ann", is_director |-> TRUE, is_actor |-> FALSE,
       function |-> "Director", image_1920 |-> FALSE,
       tmdb_profile_path |-> FalseStr]>>

StoredRow(tmdb_id, title, release_date, create_date) ==
    [MovieDefaults EXCEPT !.tmdb_id = tmdb_id, !.title = title,
                          !.release_date = release_date,
                          !.create_date = create_date]

Voted(row, vote_count, vote_average) ==
    [row EXCEPT !.vote_count = vote_count, !.vote_average = vote_average]

\* Three rows with one tmdb_id, title and date, and a row with an id of its
\* own whose title normalizes to theirs.
BatchTriple ==
    <<Voted([StoredRow(1, TitleX, DayOne, 0 - 1) EXCEPT !.overview = "plot"], 5, 5),
      Voted(StoredRow(1, TitleX, DayOne, 0 - 2), 20, 8),
      Voted([StoredRow(1, TitleX, DayOne, 0 - 3) EXCEPT !.poster_path = "/q.jpg"], 10, 6),
      StoredRow(2, TitleTheX, DayTwo, 0 - 4)>>

\* Two rows with one tmdb_id that complete each other.
BatchBlanks ==
    <<[StoredRow(1, TitleA, NoDate, 0 - 2) EXCEPT
           !.overview = "plot", !.poster_path = "/p.jpg", !.genre_ids = {1}],
      [StoredRow(1, TitleX, NoDate, 0 - 1) EXCEPT
           !.director = "Ann", !.director_id = 1, !.backdrop_path = "/b.jpg",
           !.genre_ids = {2}]>>

\* Three rows with one tmdb_id: the first has every text field, the other
\* two have different values for them.
BatchFilled ==
    <<Voted([StoredRow(2, TitleA, NoDate, 0 - 1) EXCEPT
                 !.overview = "plot", !.poster_path = "/p.jpg",
                 !.director = "Bob", !.backdrop_path = "/b.jpg"], 9, 7),
      Voted([StoredRow(2, TitleA, NoDate, 0 - 2) EXCEPT
                 !.overview = "other", !.poster_path = "/q.jpg"], 9, 9),
      [StoredRow(2, TitleA, DayOne, 0 - 3) EXCEPT
           !.director = "Ann", !.director_id = 1, !.backdrop_path = "/c.jpg"]>>

\* Two pairs; in the first, the row with more votes has a vote_average
\* that validate_vote_average rejects.
BatchInvalid ==
    <<Voted(StoredRow(1, TitleA, NoDate, 0 - 1), 3, 6),
      Voted(StoredRow(1, TitleX, NoDate, 0 - 1), 8, 11),
      Voted([StoredRow(2, TitleA, DayOne, 0 - 2) EXCEPT !.overview = "plot"], 4, 6),
      Voted(StoredRow(2, TitleX, DayTwo, 0 - 2), 6, 7)>>

\* A pair by tmdb_id and a pair by title and date that share no row.
BatchApart ==
    <<Voted(StoredRow(1, TitleA, DayOne, 0 - 1), 2, 5),
      Voted([StoredRow(1, TitleX, DayTwo, 0 - 2) EXCEPT !.overview = "plot"], 7, 6),
      StoredRow(2, TitleTheX, NoDate, 0 - 3),
      [StoredRow(3, TitleTheX, NoDate, 0 - 4) EXCEPT !.poster_path = "/p.jpg"]>>

StoredBatches ==
    {BatchTriple, BatchBlanks, BatchFilled, BatchInvalid, BatchApart}

DetectionCriteria == {"tmdb_id", "title_date", "title_similar", "all"}
KeepPreferences == {"newest", "most_complete", "highest_rating", "manual"}
ActionTypes == {"merge", "delete"}

(* ------------------------------- state --------------------------------- *)
VARIABLES
    apiKey,     \* custom_addon.tmdb_api_key is configured
    movies,     \* tmdb.movie rows by id
    genres,     \* tmdb.genre rows by id
    partners,   \* res.partner rows by id
    movie_seq,  \* last id handed out by the tmdb_movie id sequence
    lines,      \* duplicate_line_ids of the data cleanup wizard
    duplicate_count, \* duplicate_count of the data cleanup wizard
    syncWizard, \* the sync wizard record: wizard_step and preview fields
    txns,       \* the sync_movie_from_tmdb calls of two concurrent requests
    clock,      \* time of the last handler invocation (transaction timestamp)
    last        \* the last handler invocation: arguments, outcome, requests

vars == <<apiKey, movies, genres, partners, movie_seq, lines,
          duplicate_count, syncWizard,
          txns, clock, last>>

Db == [movies |-> movies, genres |-> genres, partners |-> partners,
       movie_seq |-> movie_seq]

SetDb(db) ==
    /\ movies' = db.movies
    /\ genres' = db.genres
    /\ partners' = db.partners
    /\ movie_seq' = db.movie_seq
    /\ lines' = Cascade(db, lines)
    /\ UNCHANGED duplicate_count

NoCall == [op |-> "none"]

Procs == {1, 2}

Idle == [pc |-> "idle"]

Init ==
    /\ apiKey \in BOOLEAN
    /\ movies = <<>>
    /\ genres = <<>>
    /\ partners = <<>>
    /\ movie_seq = 0
    /\ lines = <<>>
    /\ duplicate_count = 0
    /\ syncWizard = [wizard_step |-> "configure", preview_genres_count |-> 0,
                     preview_movies |-> <<>>]
    /\ txns = [p \in Procs |-> Idle]
    /\ clock = 0
    /\ last = NoCall

\* Every request is one transaction, stamped with a later time.
Stamp ==
    /\ clock < MaxClock
    /\ clock' = clock + 1

\* A handler invocation that runs with no other request in flight.
Tick ==
    /\ Stamp
    /\ \A p \in Procs : txns[p].pc # "searched"
    /\ UNCHANGED txns

\* res.config.settings: the administrator sets or clears the API key.
ConfigureApiKey ==
    /\ Tick
    /\ apiKey' = ~apiKey
    /\ last' = [op |-> "configure"]
    /\ UNCHANGED <<movies, genres, partners, movie_seq, lines, duplicate_count, syncWizard>>

\* What the trace of a call adds to "last": the rows the call inserted
\* into the genre and partner tables.
Made(db) ==
    [newGenres |-> DOMAIN db.genres \ DOMAIN genres,
     newPartners |-> DOMAIN db.partners \ DOMAIN partners]

\* TMDBMovie.sync_movie_from_tmdb(tmdb_id), called on its own (the form
\* button, the search result line).  inputs[id] are the answers TMDB can
\* give for id.  "again" records that the call repeats the previous one:
\* same id, same answers from TMDB, and the previous call returned a Movie.
SyncMovieCall(inputs) ==
    \E tmdb_id \in TmdbIds : \E in \in inputs[tmdb_id] :
        LET Return(r) ==
                /\ Tick
                /\ SetDb(r.db)
                /\ last' = [op |-> "syncMovie", tmdb_id |-> tmdb_id, in |-> in,
                            again |-> /\ last.op = "syncMovie"
                                      /\ last.tmdb_id = tmdb_id
                                      /\ last.in = in
                                      /\ last.kind = "movie",
                            kind |-> r.kind, exc |-> r.exc, ids |-> r.ids,
                            created |-> r.created, reqs |-> r.reqs,
                            genre_ids |-> r.genre_ids,
                            actor_ids |-> r.actor_ids]
                           @@ Made(r.db)
                /\ UNCHANGED <<apiKey, syncWizard>>
        IN  Return(sync_movie_from_tmdb(Db, apiKey, tmdb_id, in, clock + 1))

SyncMovie == SyncMovieCall(SyncInputsOf)

SyncMovieTagged == SyncMovieCall(GenreTaggedOf)

SyncMovieCore == SyncMovieCall(CoreInputsOf)

\* TMDBMovie.sync_popular_movies(page, limit)
SyncPopularCall(calls) ==
    \E call \in calls :
        LET Return(r) ==
                /\ Tick
                /\ SetDb(r.db)
                /\ last' = [op |-> "syncPopular", call |-> call,
                            kind |-> r.kind, exc |-> r.exc, kinds |-> r.kinds,
                            count |-> r.count, reqs |-> r.reqs] @@ Made(r.db)
                /\ UNCHANGED <<apiKey, syncWizard>>
        IN  Return(sync_popular_movies(Db, apiKey, call.pageOk, call.results,
                                       call.limit, call.ins, clock + 1))

SyncPopular == SyncPopularCall(PopularCalls)

SyncPopularCore == SyncPopularCall(CorePopularCalls)

\* TMDBGenre.sync_all_genres_from_tmdb / sync_only_new_genres_from_tmdb;
\* "before" is the genre table the call started from.
GenreSyncCall(lists) ==
    \E only_new \in BOOLEAN, ok \in BOOLEAN, entries \in lists :
        LET Return(r) ==
                /\ ok \/ entries = <<>>
                /\ Tick
                /\ SetDb(r.db)
                /\ last' = [op |-> IF only_new THEN "syncNewOnly" ELSE "syncAll",
                            ok |-> ok, entries |-> entries, before |-> genres,
                            kind |-> r.kind, exc |-> r.exc, reqs |-> r.reqs,
                            synced |-> r.synced, created |-> r.created,
                            skipped |-> r.skipped, total |-> r.total]
                /\ UNCHANGED <<apiKey, syncWizard>>
        IN  Return(IF only_new
                   THEN sync_only_new_genres_from_tmdb(Db, apiKey, ok, entries)
                   ELSE sync_all_genres_from_tmdb(Db, apiKey, ok, entries))

GenreSync == GenreSyncCall(GenreLists)

GenreSyncCore == GenreSyncCall(CoreGenreLists)

\* TMDBMovie.search_movies(query)
SearchMoviesCall ==
    \E pageOk \in BOOLEAN :
        LET r == search_movies(apiKey, pageOk, <<1, 2>>)
        IN  /\ Tick
            /\ last' = [op |-> "search", kind |-> r.kind, exc |-> r.exc,
                        reqs |-> r.reqs]
            /\ UNCHANGED <<apiKey, movies, genres, partners, movie_seq, lines, duplicate_count,
                           syncWizard>>

\* TMDBMovieSearchWizard.search_tmdb_movies
\* TMDBMovieSearchWizard.search_tmdb_movies, for a form and an upstream of
\* calls.  exists is what the result list shows for each candidate.
SearchWizardCall(calls) ==
    \E call \in calls :
        LET Return(r) ==
                /\ Tick
                /\ SetDb(r.db)
                /\ last' = [op |-> "searchWizard", call |-> call,
                            kind |-> r.kind, exc |-> r.exc, pages |-> r.pages,
                            asked |-> r.asked, found |-> r.found,
                            exists |-> [k \in DOMAIN r.found |->
                                _compute_exists_in_local(r.db.movies,
                                                         r.found[k].id)],
                            reqs |-> [k \in 1..r.pages |-> "discover"]]
                /\ UNCHANGED <<apiKey, syncWizard>>
        IN  Return(search_tmdb_movies(Db, apiKey, call.wz, call.up))

SearchWizard == SearchWizardCall(SearchCalls)

SearchScan == SearchWizardCall(ScanCalls)

\* TMDBMovieSyncWizard.action_preview_sync
PreviewSync ==
    \E call \in WizardCalls :
        LET Return(r) ==
                /\ Tick
                /\ SetDb(r.db)
                /\ syncWizard' =
                       [wizard_step |-> IF r.wizard_step = "same"
                                        THEN syncWizard.wizard_step
                                        ELSE r.wizard_step,
                        preview_genres_count |-> r.preview_genres_count,
                        preview_movies |-> IF r.kind = "done" THEN r.movies
                                           ELSE syncWizard.preview_movies]
                /\ last' = [op |-> "preview", w |-> call.w, kind |-> r.kind,
                            exc |-> r.exc, reqs |-> r.reqs,
                            found |-> r.movies,
                            exists |-> [k \in DOMAIN r.movies |->
                                _compute_exists_in_local(r.db.movies,
                                                         r.movies[k])]]
                /\ UNCHANGED apiKey
        IN  Return(action_preview_sync(Db, apiKey, call.w,
                                       AsAnswered(apiKey, call.up),
                                       syncWizard.preview_genres_count))

\* TMDBMovieSyncWizard.action_sync_movies
WizardSync ==
    \E call \in WizardCalls :
        LET Return(r) ==
                /\ Tick
                /\ SetDb(r.db)
                /\ syncWizard' =
                       [syncWizard EXCEPT !.wizard_step =
                            IF r.wizard_step = "same" THEN @ ELSE r.wizard_step]
                /\ last' = [op |-> "wizardSync", w |-> call.w, kind |-> r.kind,
                            exc |-> r.exc, reqs |-> r.reqs, count |-> r.count]
                           @@ Made(r.db)
                /\ UNCHANGED apiKey
        IN  Return(action_sync_movies(Db, apiKey, call.w,
                                      AsAnswered(apiKey, call.up), clock + 1))

\* tmdb.movie create(vals) from the movie form.
CreateMovie ==
    \E vals \in FormMovies :
        LET r == MovieCreate(Db, {}, vals, clock + 1)
        IN  /\ Tick
            /\ SetDb(r.db)
            /\ last' = [op |-> "create", vals |-> vals, exc |-> r.exc,
                        ids |-> r.ids,
                        held |-> SearchMovies(movies, vals.tmdb_id) # {}]
            /\ UNCHANGED <<apiKey, syncWizard>>

\* TMDBDataCleanupWizard.action_detect_duplicates
DetectDuplicates ==
    \E detection_criteria \in DetectionCriteria,
       keep_preference \in KeepPreferences,
       tmdb_keys \in Orderings(TmdbIdKeys(movies)),
       title_keys \in Orderings(TitleDateKeys(movies)) :
        LET r == action_detect_duplicates(movies, detection_criteria,
                     keep_preference, tmdb_keys, title_keys)
        IN  /\ Tick
            /\ lines' = r.lines
            /\ duplicate_count' = r.duplicate_count
            /\ last' = [op |-> "detect", detection_criteria |-> detection_criteria,
                        keep_preference |-> keep_preference,
                        duplicate_count |-> r.duplicate_count]
            /\ UNCHANGED <<apiKey, movies, genres, partners, movie_seq,
                           syncWizard>>

\* TMDBDataCleanupWizard.action_process_duplicates
ProcessDuplicates ==
    \E action_type \in ActionTypes, keep_preference \in KeepPreferences :
        LET Return(r) ==
                /\ Tick
                /\ movies' = r.db.movies
                /\ lines' = r.lines
                /\ duplicate_count' = r.duplicate_count
                /\ last' = [op |-> "process", action_type |-> action_type,
                            keep_preference |-> keep_preference,
                            kind |-> r.kind, exc |-> r.exc,
                            processed |-> r.processed,
                            removed |-> DOMAIN movies \ DOMAIN r.db.movies,
                            before |-> movies, lines |-> lines,
                            log |-> r.log]
                /\ UNCHANGED <<apiKey, genres, partners, movie_seq, syncWizard>>
        IN  Return(action_process_duplicates(Db, lines, duplicate_count,
                                             action_type,
                                             keep_preference))

\* The store as the cleanup wizard finds it: rows inserted directly, before
\* any handler ran.
DirectInsert ==
    \E rows \in StoredBatches :
        /\ last = NoCall
        /\ movies = <<>>
        /\ movies' = rows
        /\ movie_seq' = Len(rows)
        /\ partners' = StoredPartners
        /\ last' = [op |-> "insert"]
        /\ UNCHANGED <<apiKey, genres, lines, duplicate_count, syncWizard, txns, clock>>

\* The user ticks or unticks "Keep This Record" on one wizard line.
SetKeep ==
    \E k \in DOMAIN lines :
        /\ Tick
        /\ lines' = [lines EXCEPT ![k].is_recommended_keep = ~@]
        /\ UNCHANGED duplicate_count
        /\ last' = [op |-> "setKeep", line |-> k]
        /\ UNCHANGED <<apiKey, movies, genres, partners, movie_seq, syncWizard>>

\* The Person Resolver called for one credits entry:
\* find_or_create_director_contact_simple / find_or_create_actor_contact.
\* "before" is the partner table the call started from.
ResolvePersonCall ==
    \E call \in ResolveCalls :
        LET cdn == IF call.served THEN {call.profile_path} ELSE {}
            Return(r) ==
                /\ Tick
                /\ SetDb(r.db)
                /\ last' = [op |-> "resolve", call |-> call, id |-> r.id,
                            reqs |-> r.reqs, before |-> partners]
                /\ UNCHANGED <<apiKey, syncWizard>>
        IN  Return(IF call.flag = "is_director"
                   THEN find_or_create_director_contact_simple(
                            Db, call.name, call.profile_path, cdn)
                   ELSE find_or_create_actor_contact(
                            Db, call.name, call.profile_path, cdn))

\* sync_movie_from_tmdb with credits that carry profile paths.
SyncMoviePerson == SyncMovieCall(PersonInputsOf)

\* ---- two requests that call sync_movie_from_tmdb at the same time ----
\* Each request is one REPEATABLE READ transaction: its searches see the
\* rows committed before its first query.  hiddenM / hiddenG / hiddenP are
\* the movie, genre and partner rows committed by the other request since
\* then, touched the movie rows the other request wrote since then.
RaceInputs(id) == {OkIn(id), CreditsFail(Poor(id)), DetailsFail(id)}

RaceInputsOf == [id \in TmdbIds |-> RaceInputs(id)]

\* The tables as the transaction's searches see them: a hidden row
\* matches no search, and keeps its id.
MaskGenres(gs, hidden) ==
    [i \in DOMAIN gs |->
        IF i \in hidden THEN [gs[i] EXCEPT !.tmdb_genre_id = NoneInt] ELSE gs[i]]

MaskPartners(ps, hidden) ==
    [i \in DOMAIN ps |->
        IF i \in hidden
        THEN [ps[i] EXCEPT !.name = NoneStr, !.is_actor = FALSE,
                           !.is_director = FALSE]
        ELSE ps[i]]

\* The committed tables after the transaction's commit.
Unmask(tbl, committed, hidden) ==
    [i \in DOMAIN tbl |-> IF i \in hidden THEN committed[i] ELSE tbl[i]]

\* p starts: the details request and the existence search.
RaceBegin(p) ==
    \E tmdb_id \in TmdbIds : \E in \in RaceInputsOf[tmdb_id] :
        LET q == CHOOSE o \in Procs : o # p
            existing_movie == SearchMovies(movies, tmdb_id)
            races == /\ txns[q].pc = "searched"
                     /\ txns[q].tmdb_id = tmdb_id
                     /\ txns[q].existing_movie = {}
                     /\ existing_movie = {}
        IN  /\ txns[p].pc # "searched"
            /\ Stamp
            /\ apiKey
            /\ txns' =
                 IF ~in.detailsOk
                 THEN [txns EXCEPT ![p] = [pc |-> "done", tmdb_id |-> tmdb_id,
                          kind |-> "false", exc |-> "none", ids |-> {},
                          raced |-> FALSE]]
                 ELSE [txns EXCEPT
                          ![p] = [pc |-> "searched", tmdb_id |-> tmdb_id,
                                  in |-> in, now |-> clock + 1,
                                  existing_movie |-> existing_movie,
                                  hiddenM |-> {}, hiddenG |-> {},
                                  hiddenP |-> {}, touched |-> {},
                                  raced |-> races],
                          ![q] = IF races THEN [@ EXCEPT !.raced = TRUE] ELSE @]
            /\ last' = [op |-> "raceBegin", p |-> p]
            /\ UNCHANGED <<apiKey, movies, genres, partners, movie_seq, lines, duplicate_count,
                           syncWizard>>

\* p resolves, writes and commits.  A write to a row the other request
\* has written since p's snapshot fails (serialization failure).  Whether
\* the genre and partner rows made before a failed movie write are
\* committed (the caller catches the exception) or rolled back with the
\* request is up to the caller: both outcomes are explored.
RaceWriteOutcome(p, keep) ==
    LET t == txns[p]
        q == CHOOSE o \in Procs : o # p
        view == [movies |-> movies,
                 genres |-> MaskGenres(genres, t.hiddenG),
                 partners |-> MaskPartners(partners, t.hiddenP),
                 movie_seq |-> movie_seq]
        Commit(exc, ids, db) ==
            /\ keep => exc # "none"
            /\ SetDb(db)
            /\ txns' = [txns EXCEPT
                  ![p] = [pc |-> "done", tmdb_id |-> t.tmdb_id,
                          kind |-> IF exc = "none" THEN "movie" ELSE "exc",
                          exc |-> exc, ids |-> ids, raced |-> t.raced],
                  ![q] = IF txns[q].pc # "searched" THEN @
                         ELSE [@ EXCEPT
                            !.hiddenM = @ \cup (DOMAIN db.movies \ DOMAIN movies),
                            !.hiddenG = @ \cup (DOMAIN db.genres \ DOMAIN genres),
                            !.hiddenP = @ \cup (DOMAIN db.partners \ DOMAIN partners),
                            !.touched = @ \cup ids]]
            /\ last' = [op |-> "raceWrite", p |-> p]
            /\ UNCHANGED <<apiKey, syncWizard, clock>>
        Outcome(r, exc, side) ==
            Commit(exc,
                   IF exc = "none" THEN r.ids ELSE {},
                   IF exc = "none"
                   THEN [side EXCEPT !.movies = r.db.movies,
                                     !.movie_seq = r.db.movie_seq]
                   ELSE IF keep THEN side ELSE Db)
        Resolved(r) ==
            Outcome(r,
                    IF r.exc = "none" /\ t.existing_movie \cap t.touched # {}
                    THEN "SerializationFailure" ELSE r.exc,
                    [Db EXCEPT
                       !.genres = Unmask(r.db.genres, genres, t.hiddenG),
                       !.partners = Unmask(r.db.partners, partners, t.hiddenP)])
    IN  /\ t.pc = "searched"
        /\ Resolved(SyncResolveAndWrite(
                        view, t.hiddenM, t.existing_movie, t.in, t.now))

RaceWrite(p) == \E keep \in BOOLEAN : RaceWriteOutcome(p, keep)

\* The ORM recomputes age_category of a record whose release_date was set.
ComputeAgeCategory ==
    \E release_date \in ReleaseDates :
        /\ Tick
        /\ last' = [op |-> "age_category", release_date |-> release_date,
                    today |-> Today,
                    age_category |->
                        _compute_age_category(release_date, Today)]
        /\ UNCHANGED <<movies, genres, partners, movie_seq, lines,
                       duplicate_count, apiKey, syncWizard>>

\* TMDBDataCleanupWizard._normalize_title(title)
NormalizeTitle ==
    \E title \in Titles :
        /\ Tick
        /\ last' = [op |-> "normalize", title |-> title,
                    normalized |-> _normalize_title(title)]
        /\ UNCHANGED <<movies, genres, partners, movie_seq, lines,
                       duplicate_count, apiKey, syncWizard>>

NextRace ==
    \/ \E p \in Procs : RaceBegin(p)
    \/ \E p \in Procs : RaceWrite(p)

SpecRace == Init /\ [][NextRace]_vars

\* The Movie Reconciler on its own.
NextSync ==
    \/ ConfigureApiKey
    \/ SyncMovie

SpecSync == Init /\ [][NextSync]_vars

\* The popular-movies entry of the Bulk Sync Driver on its own.
NextBulk ==
    \/ ConfigureApiKey
    \/ SyncPopular

SpecBulk == Init /\ [][NextBulk]_vars

\* The Genre Reconciler, next to movie syncs that create genres inline.
NextGenre ==
    \/ ConfigureApiKey
    \/ GenreSync
    \/ SyncMovieCore

SpecGenre == Init /\ [][NextGenre]_vars

\* The Person Resolver, on its own and inside movie syncs.
NextPerson ==
    \/ ConfigureApiKey
    \/ ResolvePersonCall
    \/ SyncMoviePerson

SpecPerson == Init /\ [][NextPerson]_vars

\* The Duplicate Detector & Merger on a directly filled store.
NextCleanup ==
    \/ DirectInsert
    \/ DetectDuplicates
    \/ SetKeep
    \/ ProcessDuplicates

SpecCleanup == Init /\ [][NextCleanup]_vars

\* The search wizard's page scan.
\* Everything that reads or writes tmdb.genre rows, next to merge and delete.
NextGenreStore ==
    \/ ConfigureApiKey
    \/ GenreSync
    \/ SyncMovieTagged
    \/ DirectInsert
    \/ DetectDuplicates
    \/ ProcessDuplicates

SpecGenreStore == Init /\ [][NextGenreStore]_vars

NextSearch ==
    \/ ConfigureApiKey
    \/ SearchScan

SpecSearch == Init /\ [][NextSearch]_vars

\* The computed age category on its own.
NextAge ==
    \/ ComputeAgeCategory

SpecAge == Init /\ [][NextAge]_vars

\* The title normalizer on its own.
NextTitle ==
    \/ NormalizeTitle

SpecTitle == Init /\ [][NextTitle]_vars

\* Every handler.
Next ==
    \/ ConfigureApiKey
    \/ SyncMovieCore
    \/ SyncPopularCore
    \/ GenreSyncCore
    \/ SearchMoviesCall
    \/ SearchWizard
    \/ PreviewSync
    \/ WizardSync
    \/ CreateMovie
    \/ DetectDuplicates
    \/ ProcessDuplicates

Spec == Init /\ [][Next]_vars

(* ============================== claims ================================= *)

\* C1: sync_movie_from_tmdb is idempotent.  When a call for an external id
\* returned a Movie and the next call is for the same id and receives the
\* same details and credits, the second call returns the same record, is an
\* update and not a create, adds no Movie row, and exactly one Movie holds
\* that tmdb_id afterwards.
C1_SyncIdempotent ==
    [][(/\ last.op = "syncMovie"
        /\ last.kind = "movie"
        /\ last'.op = "syncMovie"
        /\ last'.tmdb_id = last.tmdb_id
        /\ last'.in = last.in)
       => (/\ last'.kind = "movie"
           /\ last'.ids = last.ids
           /\ ~last'.created
           /\ DOMAIN movies' = DOMAIN movies
           /\ Cardinality(SearchMovies(movies', last'.tmdb_id)) = 1)]_vars

C1_Witness ==
    /\ last.op = "syncMovie"
    /\ last.again
    /\ last.kind = "movie"
    /\ Cardinality(DOMAIN movies) = 1

\* C4: when the details request fails, the call returns false, issues no
\* credits request and leaves movies, genres and partners as they were.
C4_DetailsFailureNoMutation ==
    [][(/\ last'.op = "syncMovie"
        /\ apiKey
        /\ ~last'.in.detailsOk)
       => (/\ last'.kind = "false"
           /\ last'.reqs = <<"details">>
           /\ UNCHANGED <<movies, genres, partners>>)]_vars

C4_Witness ==
    /\ last.op = "syncMovie"
    /\ ~last.in.detailsOk
    /\ last.kind = "false"
    /\ movies # <<>>
    /\ partners # <<>>

\* C5 (as claimed): when the details arrive and both credits requests
\* fail, a call that writes the Movie leaves it with no director name, no
\* director reference and no actors, and creates no partner.
C5_CreditsFailureLeavesUnresolved ==
    (/\ last.op = "syncMovie"
     /\ last.in.detailsOk
     /\ ~last.in.creditsOk1
     /\ ~last.in.creditsOk2
     /\ last.kind = "movie")
    => (/\ last.newPartners = {}
        /\ \A i \in last.ids :
              /\ movies[i].director = FalseStr
              /\ movies[i].director_id = NoId
              /\ movies[i].actor_ids = {})

\* C6 (as claimed): after a call updated an existing Movie, its genres are
\* exactly the genres resolved from the details and its actors exactly the
\* actors resolved from the credits in that call.
C6_AssociationsReplaced ==
    (/\ last.op = "syncMovie"
     /\ last.kind = "movie"
     /\ ~last.created)
    => \A i \in last.ids :
          /\ movies[i].genre_ids = last.genre_ids
          /\ movies[i].actor_ids = last.actor_ids

\* The values _prepare_movie_values would write for a details document
\* break one of the write-time constraints on vote_average, vote_count or
\* release_date.
BreaksConstraint(d) ==
    \/ OrZero(d.vote_average) < 0
    \/ OrZero(d.vote_average) > 10
    \/ OrZero(d.vote_count) < 0
    \/ (OrFalseDate(d.release_date) # NoDate
        /\ OrFalseDate(d.release_date) > Today)

\* The partners a call is expected to have resolved from its credits.
HasPartner(ps, name, flag) ==
    \E i \in DOMAIN ps : ps[i].name = name /\ ps[i][flag]

CreditsResolved(ps, in) ==
    /\ (in.creditsOk1 /\ Truthy(get_director_from_credits(in.credits).name))
           => HasPartner(ps, get_director_from_credits(in.credits).name,
                         "is_director")
    /\ in.creditsOk2 =>
           \A m \in Range(Take(SortedCast(in.credits.cast), TopActors)) :
               Truthy(m.name) => HasPartner(ps, m.name, "is_actor")

C8_PopularCountsSuccesses ==
    (/\ last.op = "syncPopular"
     /\ apiKey
     /\ last.call.pageOk
     /\ \A k \in DOMAIN last.call.ins :
           last.call.ins[k].detailsOk
               => ~BreaksConstraint(last.call.ins[k].details))
    => LET todo == PySlice(last.call.results, last.call.limit)
           good == {k \in DOMAIN todo : last.call.ins[k].detailsOk}
       IN  /\ last.kind = "count"
           /\ Len(last.kinds) = Len(todo)
           /\ \A k \in DOMAIN todo :
                 /\ last.kinds[k] = (IF k \in good THEN "movie" ELSE "false")
                 /\ k \in good => SearchMovies(movies, todo[k]) # {}
           /\ last.count = Cardinality(good)
           /\ last.count = Len(todo) - Cardinality(DOMAIN todo \ good)

\* A run in which an entry failed in the middle and a later one was synced.
C8_Witness ==
    /\ last.op = "syncPopular"
    /\ last.kind = "count"
    /\ \E k, j \in DOMAIN last.kinds :
          /\ k < j
          /\ last.kinds[k] = "false"
          /\ last.kinds[j] = "movie"
    /\ last.count < Len(last.kinds)
    /\ last.count > 0

\* The operations that talk to TMDB and are named by C9.
TmdbOps ==
    {"syncMovie", "syncPopular", "search", "searchWizard", "syncAll",
     "syncNewOnly", "preview"}

\* C9 (as claimed): with no API key configured, every operation that talks
\* to TMDB fails with the error "TMDB API key not configured" before any
\* request is issued and changes no movie, genre or partner.
C9_NoKeyConfigError ==
    [][(/\ last'.op \in TmdbOps
        /\ ~apiKey)
       => (/\ last'.exc = NoApiKey
           /\ last'.reqs = <<>>
           /\ UNCHANGED <<movies, genres, partners>>)]_vars

\* C10: sync_only_new_genres_from_tmdb leaves every genre that was in the
\* store as it was, creates one genre for each upstream id that was not
\* known, and reports created + skipped = total = the number of upstream
\* entries.
C10_NewOnlyKeepsExisting ==
    last.op = "syncNewOnly" =>
        /\ \A i \in DOMAIN last.before :
              i \in DOMAIN genres /\ genres[i] = last.before[i]
        /\ last.kind = "counts" =>
              LET ids == {last.entries[k].id : k \in DOMAIN last.entries}
                  fresh == {g \in ids : SearchGenres(last.before, g) = {}}
                  made == DOMAIN genres \ DOMAIN last.before
              IN  /\ last.created + last.skipped = last.total
                  /\ last.total = Len(last.entries)
                  /\ last.synced = 0
                  /\ last.created = Cardinality(fresh)
                  /\ Cardinality(made) = last.created
                  /\ {genres[i].tmdb_genre_id : i \in made} = fresh

\* A run that skipped a genre whose upstream name differs from the stored
\* one and created another.
C10_Witness ==
    /\ last.op = "syncNewOnly"
    /\ last.kind = "counts"
    /\ last.created > 0
    /\ \E k \in DOMAIN last.entries : \E i \in DOMAIN last.before :
          /\ last.before[i].tmdb_genre_id = last.entries[k].id
          /\ last.before[i].name # last.entries[k].name

\* C2: no two Movies ever hold the same tmdb_id, whatever sequence of
\* syncs, wizard runs, creates, merges and deletes is executed, and a
\* create with a tmdb_id that a Movie already holds is rejected and adds
\* no row.
C2_TmdbIdUnique ==
    /\ \A i, j \in DOMAIN movies :
          movies[i].tmdb_id = movies[j].tmdb_id => i = j
    /\ (last.op = "create" /\ last.held)
          => /\ last.exc \in {"IntegrityError", "ValidationError"}
             /\ last.ids = {}
             /\ Cardinality(SearchMovies(movies, last.vals.tmdb_id)) = 1

\* A create for a held tmdb_id was rejected while two Movies were stored.
C2_Witness ==
    /\ last.op = "create"
    /\ last.held
    /\ last.exc # "none"
    /\ Cardinality(DOMAIN movies) = 2

\* C3: two concurrent sync_movie_from_tmdb calls for a tmdb_id no Movie
\* holds, both of which ran the existence search before either created:
\* when both have reached their create, one create succeeded and the other
\* failed on the tmdb_id_unique constraint; and in every interleaving at
\* most one Movie holds a tmdb_id.
C3_RaceOneCreateWins ==
    /\ \A i, j \in DOMAIN movies :
          movies[i].tmdb_id = movies[j].tmdb_id => i = j
    /\ \A p, q \in Procs :
          (/\ p # q
           /\ txns[p].pc = "done"
           /\ txns[q].pc = "done"
           /\ txns[p].raced
           /\ txns[q].raced
           /\ txns[p].tmdb_id = txns[q].tmdb_id
           /\ {txns[p].exc, txns[q].exc} \subseteq {"none", "IntegrityError"})
          => /\ {txns[p].exc, txns[q].exc} = {"none", "IntegrityError"}
             /\ Cardinality(SearchMovies(movies, txns[p].tmdb_id)) = 1

\* Both racing calls are over: one created the Movie, the other failed on
\* the constraint.
C3_Witness ==
    /\ txns[1].pc = "done"
    /\ txns[2].pc = "done"
    /\ txns[1].raced
    /\ txns[2].raced
    /\ txns[1].tmdb_id = txns[2].tmdb_id
    /\ txns[1].exc = "IntegrityError"
    /\ txns[2].exc = "none"
    /\ Cardinality(SearchMovies(movies, txns[1].tmdb_id)) = 1

C12_ResolveIdempotent ==
    [][(/\ last.op = "resolve"
        /\ last.id # NoId
        /\ last'.op = "resolve"
        /\ last'.call.name = last.call.name
        /\ last'.call.flag = last.call.flag)
       => (/\ last'.id = last.id
           /\ DOMAIN partners' = DOMAIN partners
           /\ \A i \in DOMAIN partners \ {last.id} : partners'[i] = partners[i]
           /\ partners'[last.id].name = last.call.name
           /\ partners[last.id].image_1920 => partners'[last.id] = partners[last.id]
           /\ (/\ ~Truthy(last.call.profile_path)
               /\ Truthy(last'.call.profile_path)
               /\ last'.call.served
               /\ ~partners[last.id].image_1920)
              => /\ partners'[last.id].image_1920
                 /\ partners'[last.id].tmdb_profile_path = last'.call.profile_path)]_vars

\* A call found the contact that an earlier call for the same name and
\* role had made without an image, and attached the image to it, while
\* another contact with an image of a different path was stored.
C12_Witness ==
    /\ last.op = "resolve"
    /\ last.id \in DOMAIN last.before
    /\ ~last.before[last.id].image_1920
    /\ partners[last.id].image_1920
    /\ partners[last.id].tmdb_profile_path = last.call.profile_path
    /\ Cardinality(DOMAIN partners) = 2
    /\ \E i \in DOMAIN partners :
          /\ partners[i].image_1920
          /\ partners[i].tmdb_profile_path # last.call.profile_path

\* C13: a single contact can hold both roles.  When the resolver is asked
\* for a name in a role and the only contacts with that name lack that
\* role flag, the call returns one of them with the flag now set, and
\* creates no second contact with the name.
C13_RoleFlagAdded ==
    (/\ last.op = "resolve"
     /\ Truthy(last.call.name)
     /\ \E i \in DOMAIN last.before : last.before[i].name = last.call.name
     /\ \A i \in DOMAIN last.before :
           last.before[i].name = last.call.name
               => ~last.before[i][last.call.flag])
    => /\ last.id \in DOMAIN last.before
       /\ last.before[last.id].name = last.call.name
       /\ partners[last.id][last.call.flag]
       /\ DOMAIN partners = DOMAIN last.before

\* C14: image failures are isolated.  A resolver call whose image request
\* fails still returns the found or new contact, with the name and the
\* role flag set and no image attached by the call; and a sync whose
\* credits led to failed image requests still returns the Movie, linked to
\* the director and the actors of the credits, the contacts it created for
\* them being without image.
C14_ImageFailureIsolated ==
    /\ (/\ last.op = "resolve"
        /\ Truthy(last.call.name)
        /\ Truthy(last.call.profile_path)
        /\ ~last.call.served)
       => /\ last.id \in DOMAIN partners
          /\ partners[last.id].name = last.call.name
          /\ partners[last.id][last.call.flag]
          /\ partners[last.id].image_1920
                => (last.id \in DOMAIN last.before /\ last.reqs = <<>>)
          /\ \A i \in DOMAIN last.before : partners[i] = last.before[i]
    /\ (/\ last.op = "syncMovie"
        /\ apiKey
        /\ last.in.credits = CreditsP
        /\ last.in.cdn # {"/a.jpg", "/b.jpg"})
       => /\ last.kind = "movie"
          /\ \A m \in last.ids :
                /\ movies[m].director_id \in DOMAIN partners
                /\ partners[movies[m].director_id].name = "Ann"
                /\ partners[movies[m].director_id].is_director
                /\ {partners[a].name : a \in movies[m].actor_ids} = {"Ann", "Bob"}
                /\ \A a \in movies[m].actor_ids : partners[a].is_actor
          /\ \A i \in last.newPartners :
                partners[i].image_1920
                    => partners[i].tmdb_profile_path \in last.in.cdn

\* A sync made the director and both actors while the CDN served no image,
\* and returned the Movie linked to the three contacts.
C14_Witness ==
    /\ last.op = "syncMovie"
    /\ last.kind = "movie"
    /\ last.in.credits = CreditsP
    /\ last.in.cdn = {}
    /\ Cardinality(last.newPartners) = 3
    /\ Len(last.reqs) > 3
    /\ \A m \in last.ids :
          /\ movies[m].director_id \in last.newPartners
          /\ movies[m].actor_ids \subseteq last.newPartners
          /\ Cardinality(movies[m].actor_ids) = 2

\* C15: detection by tmdb_id collision.  After action_detect_duplicates
\* with the criterion "tmdb_id", every tmdb_id that n > 1 movie rows hold
\* has exactly one group, whose lines are those n rows, one line each; a
\* tmdb_id held by one row has no line; and the reported number of groups
\* is the number of tmdb_ids held more than once.
GroupNumbers == {lines[k].group_number : k \in DOMAIN lines}

LinesOfGroup(g) == {k \in DOMAIN lines : lines[k].group_number = g}

MembersOfGroup(g) == {lines[k].movie_id : k \in LinesOfGroup(g)}

C15_TmdbIdGroups ==
    (last.op = "detect" /\ last.detection_criteria = "tmdb_id")
    => /\ \A t \in {movies[i].tmdb_id : i \in DOMAIN movies} :
            LET held == SearchMovies(movies, t)
                about == {g \in GroupNumbers : MembersOfGroup(g) \cap held # {}}
            IN  IF Cardinality(held) > 1
                THEN /\ Cardinality(about) = 1
                     /\ \A g \in about :
                            /\ MembersOfGroup(g) = held
                            /\ Cardinality(LinesOfGroup(g)) = Cardinality(held)
                ELSE about = {}
       /\ last.duplicate_count = Cardinality(GroupNumbers)
       /\ Cardinality(GroupNumbers) =
              Cardinality({t \in {movies[i].tmdb_id : i \in DOMAIN movies} :
                              Cardinality(SearchMovies(movies, t)) > 1})

\* Three rows share tmdb_id 1 and a fourth row has an id of its own: one
\* group of three lines.
C15_Witness ==
    /\ last.op = "detect" /\ last.detection_criteria = "tmdb_id"
    /\ Cardinality(SearchMovies(movies, 1)) = 3
    /\ Cardinality(SearchMovies(movies, 2)) = 1
    /\ GroupNumbers = {1}
    /\ Len(lines) = 3
    /\ MembersOfGroup(1) = SearchMovies(movies, 1)

\* The movies of the lines of one entry of the merge or delete log, and
\* those among them that the merge discards.
MembersOf(e) == {e.lines[k].movie_id : k \in DOMAIN e.lines}

DiscardedOf(e) == MembersOf(e) \ {e.keep}

MergedEntries ==
    IF last.op = "process" /\ last.action_type = "merge"
    THEN {k \in DOMAIN last.log : last.log[k].what = "merged"}
    ELSE {}

TextFields == {"overview", "director", "poster_path", "backdrop_path"}

\* C16: merge fills in blanks only.  For every group that
\* action_process_duplicates merged, each of overview, director,
\* poster_path and backdrop_path of the kept movie keeps its value from
\* before the group's merge when it had one, and otherwise has the value of
\* a discarded member that had one, when there is such a member (director
\* together with that member's director_id); the kept movie still exists
\* and every other member of the group is deleted.
C16_MergeFillsBlanks ==
    \A k \in MergedEntries :
        LET e == last.log[k]
            old == e.pre[e.keep]
            new == e.post[e.keep]
            Givers(f) == {d \in DiscardedOf(e) : e.pre[d][f] # FalseStr}
        IN  /\ e.keep \in DOMAIN e.post
            /\ DiscardedOf(e) \cap DOMAIN e.post = {}
            /\ \A f \in TextFields :
                   IF old[f] # FalseStr
                   THEN /\ new[f] = old[f]
                        /\ f = "director" => new.director_id = old.director_id
                   ELSE Givers(f) # {} =>
                            \E d \in Givers(f) :
                                /\ new[f] = e.pre[d][f]
                                /\ f = "director" =>
                                       new.director_id = e.pre[d].director_id

\* A row with overview and poster is merged with a row with director and
\* backdrop: the survivor has all four and the director reference.
C16_Witness ==
    \E k \in MergedEntries :
        LET e == last.log[k]
        IN  /\ Cardinality(MembersOf(e)) = 2
            /\ e.pre[e.keep].overview = "plot"
            /\ e.pre[e.keep].poster_path = "/p.jpg"
            /\ e.pre[e.keep].director = FalseStr
            /\ e.pre[e.keep].backdrop_path = FalseStr
            /\ e.post[e.keep].overview = "plot"
            /\ e.post[e.keep].poster_path = "/p.jpg"
            /\ e.post[e.keep].director = "Ann"
            /\ e.post[e.keep].director_id = 1
            /\ e.post[e.keep].backdrop_path = "/b.jpg"
            /\ DOMAIN movies = {e.keep}

\* C17: merge adopts the higher vote count.  For every group that
\* action_process_duplicates merged: if a discarded member had a vote_count
\* above the kept movie's, the kept movie ends with the highest vote_count
\* of the group's members and the vote_average of a member that had that
\* count; if none had, its vote_count and vote_average are unchanged.
C17_MergeAdoptsHighestVotes ==
    \A k \in MergedEntries :
        LET e == last.log[k]
            old == e.pre[e.keep]
            new == e.post[e.keep]
            highest == Max({e.pre[m].vote_count : m \in MembersOf(e)})
        IN  IF \E d \in DiscardedOf(e) : e.pre[d].vote_count > old.vote_count
            THEN /\ new.vote_count = highest
                 /\ \E m \in MembersOf(e) :
                        /\ e.pre[m].vote_count = highest
                        /\ new.vote_average = e.pre[m].vote_average
            ELSE /\ new.vote_count = old.vote_count
                 /\ new.vote_average = old.vote_average

\* C18: merge tolerates per-group failure.  A call of
\* action_process_duplicates that merges the wizard's lines returns without
\* raising; it reaches every group; a group whose merge raised keeps all
\* its movies and is not counted; and the reported processed count is the
\* number of groups whose merge and deletions completed.
C18_MergeToleratesFailure ==
    (last.op = "process" /\ last.action_type = "merge" /\ last.lines # <<>>)
    => /\ last.kind = "done"
       /\ Len(last.log) = Len(LineGroups(last.lines))
       /\ last.processed =
              Cardinality({k \in DOMAIN last.log : last.log[k].what = "merged"})
       /\ \A k \in DOMAIN last.log :
              last.log[k].what = "raised" =>
                  MembersOf(last.log[k]) \subseteq DOMAIN last.log[k].post

\* The groups of the lines that the last action_process_duplicates call
\* started with, by position, and those with no line flagged to keep.
GroupsBefore == LineGroups(last.lines)

FlaggedGroups ==
    {g \in DOMAIN GroupsBefore :
        \E k \in DOMAIN GroupsBefore[g] : GroupsBefore[g][k].is_recommended_keep}

MoviesOfGroup(g) ==
    {GroupsBefore[g][k].movie_id : k \in DOMAIN GroupsBefore[g]}

ManualMerge ==
    /\ last.op = "process"
    /\ last.action_type = "merge"
    /\ last.keep_preference = "manual"

DeleteCall ==
    /\ last.op = "process"
    /\ last.action_type = "delete"
    /\ last.lines # <<>>
    /\ \A g \in DOMAIN GroupsBefore : Len(GroupsBefore[g]) >= 2

KeepMovies ==
    {last.lines[k].movie_id :
        k \in {j \in DOMAIN last.lines : last.lines[j].is_recommended_keep}}

DropMovies ==
    {last.lines[k].movie_id :
        k \in {j \in DOMAIN last.lines : ~last.lines[j].is_recommended_keep}}

\* C20: deleting duplicates removes exactly the members that are not
\* flagged to keep and merges nothing.  After action_process_duplicates
\* with action_type "delete" the call has returned, the movies gone are
\* those of the lines without the flag, every movie of a flagged line
\* exists, every movie left has all its fields as before the call, and the
\* reported processed count is the number of movies deleted.
C20_DeleteRemovesUnflagged ==
    DeleteCall =>
        /\ last.kind = "done"
        /\ last.removed = DropMovies
        /\ KeepMovies \subseteq DOMAIN movies
        /\ \A m \in DOMAIN movies : movies[m] = last.before[m]
        /\ last.processed = Cardinality(last.removed)

\* No movie is on two of the lines the last action_process_duplicates call
\* started with.
LinesApart ==
    \A j, k \in DOMAIN last.lines :
        last.lines[j].movie_id = last.lines[k].movie_id => j = k

\* C21: deleting duplicates leaves one member of every group.  After
\* action_process_duplicates with action_type "delete", whatever the keep
\* policy, exactly one movie of every group still exists (stated for groups
\* that share no movie).
C21_DeleteKeepsOne ==
    (DeleteCall /\ LinesApart) =>
        \A g \in DOMAIN GroupsBefore :
            Cardinality(MoviesOfGroup(g) \cap DOMAIN movies) = 1

\* The step is a call of action_process_duplicates / action_detect_duplicates.
ProcessStep == clock' = clock + 1 /\ last'.op = "process"

DetectStep == clock' = clock + 1 /\ last'.op = "detect"

\* C22: the cleanup wizard goes idle -> detected -> merged or deleted ->
\* idle.  action_process_duplicates on a wizard without lines raises
\* UserError and changes no row; a merge or delete that completes leaves
\* the wizard without lines and with duplicate_count 0 (so the next
\* request to process is the rejected one); action_detect_duplicates
\* replaces the lines by those of its own run, whatever lines there were:
\* they are the groups found in the movie table, numbered from 1, and
\* duplicate_count is their number.
C22_WizardStates ==
    [][/\ (ProcessStep /\ lines = <<>>) =>
              /\ last'.kind = "exc" /\ last'.exc = "UserError"
              /\ movies' = movies /\ genres' = genres /\ partners' = partners
              /\ lines' = <<>>
       /\ (ProcessStep /\ last'.kind = "done") =>
              /\ lines # <<>>
              /\ lines' = <<>>
              /\ duplicate_count' = 0
       /\ DetectStep =>
              /\ movies' = movies
              /\ duplicate_count' = last'.duplicate_count
              /\ {lines'[k].group_number : k \in DOMAIN lines'}
                     = 1..duplicate_count'
              /\ \E tmdb_keys \in Orderings(TmdbIdKeys(movies)),
                    title_keys \in Orderings(TitleDateKeys(movies)) :
                     lines' = action_detect_duplicates(movies,
                                  last'.detection_criteria,
                                  last'.keep_preference,
                                  tmdb_keys, title_keys).lines
      ]_vars

\* Detection found duplicates, a merge or delete completed and removed
\* rows, and the next request to process was rejected.
C22_Witness ==
    /\ last.op = "process"
    /\ last.exc = "UserError"
    /\ lines = <<>>
    /\ duplicate_count = 0
    /\ movie_seq > Cardinality(DOMAIN movies)

\* The step is a call of action_preview_sync or of search_tmdb_movies.
PreviewStep ==
    /\ clock' = clock + 1
    /\ last'.op \in {"preview", "searchWizard"}

CandidateId(op, entry) == IF op = "preview" THEN entry ELSE entry.id

\* C23: preview is read-only.  A call of the sync wizard's
\* action_preview_sync or of the search wizard's search_tmdb_movies, with
\* any answer of the upstream or none, leaves every movie, genre and
\* contact row as it was and creates none; what it shows for each
\* candidate is whether a movie with that tmdb_id is stored.
C23_PreviewReadOnly ==
    [][PreviewStep =>
          /\ movies' = movies
          /\ genres' = genres
          /\ partners' = partners
          /\ movie_seq' = movie_seq
          /\ DOMAIN last'.exists = DOMAIN last'.found
          /\ \A k \in DOMAIN last'.found :
                 last'.exists[k] =
                     (\E i \in DOMAIN movies :
                         movies[i].tmdb_id
                             = CandidateId(last'.op, last'.found[k]))
      ]_vars

\* A preview that lists a stored movie and one that is not stored, on a
\* store that holds movies, genres and contacts.
C23_Witness ==
    /\ last.op = "preview"
    /\ last.kind = "done"
    /\ \E k \in DOMAIN last.exists : last.exists[k]
    /\ \E k \in DOMAIN last.exists : ~last.exists[k]
    /\ movies # <<>> /\ genres # <<>> /\ partners # <<>>

(* ------------------------------- C24 ----------------------------------- *)
\* The entries of a page that the form's popularity bounds let through.
KeptByForm(wz, page) ==
    SelectSeq(page,
              LAMBDA m : \/ ~wz.filter_popularity
                         \/ /\ ~(wz.minpopularity # 0
                                 /\ m.popularity < wz.minpopularity)
                            /\ ~(wz.maxpopularity # 0
                                 /\ m.popularity > wz.maxpopularity))

\* The candidates of pages lo..hi in upstream order; a request that fails
\* serves none.
RECURSIVE UpstreamOrder(_, _, _, _)
UpstreamOrder(wz, up, lo, hi) ==
    IF lo > hi THEN <<>>
    ELSE IF lo = hi
    THEN IF PageAnswer(up, lo).ok
         THEN KeptByForm(wz, PageAnswer(up, lo).results) ELSE <<>>
    ELSE UpstreamOrder(wz, up, lo, (lo + hi) \div 2)
             \o UpstreamOrder(wz, up, (lo + hi) \div 2 + 1, hi)

ScanStepDone == last.op = "searchWizard" /\ last.exc # NoApiKey

\* The scan asked for page j although it had to stop before.
AskedInVain(wz, up, j) ==
    \/ j > max_pages
    \/ Len(UpstreamOrder(wz, up, 1, j - 1)) >= wz.limit
    \/ /\ j > 1
       /\ \/ ~PageAnswer(up, j - 1).ok
          \/ PageAnswer(up, j - 1).results = <<>>
          \/ j - 1 >= PageAnswer(up, j - 1).total_pages

\* C24: the paginated scan always comes to an end and sends at most 50 page
\* requests; it asks for no page once `limit` candidates are accumulated, an
\* empty page was returned or the last available page was reached, and asks
\* for the next page otherwise; it hands back at most `limit` candidates, in
\* upstream order.
C24_ScanBounded ==
    ScanStepDone =>
        LET wz == last.call.wz
            up == last.call.up
        IN  /\ last.kind # "looping"
            /\ last.pages <= max_pages
            /\ \A j \in 1..last.pages : ~AskedInVain(wz, up, j)
            /\ AskedInVain(wz, up, last.pages + 1)
            /\ Len(last.found) <= wz.limit
            /\ last.kind = "results" =>
                   /\ last.found # <<>>
                   /\ last.found
                        = SubSeq(UpstreamOrder(wz, up, 1, last.pages),
                                 1, Len(last.found))
                   /\ \/ Len(last.found) = wz.limit
                      \/ last.found = UpstreamOrder(wz, up, 1, last.pages)

\* A scan that went through all 50 pages without reaching its limit.
C24_Witness ==
    /\ ScanStepDone
    /\ last.kind = "results"
    /\ last.pages = max_pages
    /\ Len(last.found) < last.call.wz.limit

(* ------------------------------- C25 ----------------------------------- *)
\* The scan sent a request that failed.
PageFailed ==
    /\ ScanStepDone
    /\ \E i \in DOMAIN last.asked : ~PageAnswer(last.call.up, last.asked[i]).ok

\* The failed request is the last one sent and every page up to it was asked
\* for once, in order.
StoppedAtFailure ==
    /\ last.asked = [j \in 1..last.call.up.failFrom |-> j]
    /\ last.pages = last.call.up.failFrom

\* C25 as stated: a failed request on page k > 1 stops the scan and the
\* candidates of pages 1..k-1 are handed back as the result; a failed
\* request on page 1 is reported as an error; no page is asked for twice.
C25_FailedPageKeepsResult ==
    PageFailed =>
        /\ StoppedAtFailure
        /\ IF last.call.up.failFrom = 1
           THEN last.kind = "exc" /\ last.exc = "UserError"
           ELSE /\ last.kind = "results"
                /\ last.found = UpstreamOrder(last.call.wz, last.call.up, 1,
                                              last.call.up.failFrom - 1)

\* C25 (amended): as above when pages 1..k-1 left at least one candidate;
\* when the filter dropped every entry of those pages the caller gets the
\* 'No movies found' error.
C25_FailedPageKeepsGathered ==
    PageFailed =>
        LET gathered == UpstreamOrder(last.call.wz, last.call.up, 1,
                                      last.call.up.failFrom - 1)
        IN  /\ StoppedAtFailure
            /\ IF last.call.up.failFrom = 1 \/ gathered = <<>>
               THEN last.kind = "exc" /\ last.exc = "UserError"
                    /\ last.found = <<>>
               ELSE last.kind = "results" /\ last.found = gathered

\* The request for page 3 failed and the candidates of pages 1 and 2 came
\* back.
C25_Witness ==
    /\ PageFailed
    /\ last.asked = <<1, 2, 3>>
    /\ last.kind = "results"
    /\ Len(last.found) = 4

(* ------------------------------- C26 ----------------------------------- *)
AgeStep == last.op = "age_category"

\* Whole 365-day years between the release date and today.
AgeInYears == (last.today - last.release_date) \div 365

\* C26: age_category is unset exactly when the release date is missing; for
\* a release date not after today it is classic when age >= 30, recent when
\* 5 < age < 30 and new when age <= 5, with age the days since release
\* integer-divided by 365, so every age has exactly one category.
C26_AgeCategoryTotal ==
    AgeStep =>
        /\ last.age_category = FalseStr <=> last.release_date = NoDate
        /\ (last.release_date # NoDate /\ last.release_date <= last.today) =>
               /\ last.age_category \in {"Clasica", "Reciente", "Nueva"}
               /\ last.age_category = "Clasica" <=> AgeInYears >= 30
               /\ last.age_category = "Reciente"
                      <=> (5 < AgeInYears /\ AgeInYears < 30)
               /\ last.age_category = "Nueva" <=> AgeInYears <= 5

\* A movie released 5 years and 364 days ago is classified 'new'.
C26_Witness ==
    /\ AgeStep
    /\ last.release_date = last.today - (5 * 365 + 364)
    /\ AgeInYears = 5
    /\ last.age_category = "Nueva"

(* ------------------------------- C27 ----------------------------------- *)
GenreIdsDistinct ==
    \A i, j \in DOMAIN genres :
        genres[i].tmdb_genre_id = genres[j].tmdb_genre_id => i = j

\* The step removes no Genre record and changes no tmdb_genre_id.
GenresKept ==
    \A i \in DOMAIN genres :
        /\ i \in DOMAIN genres'
        /\ genres'[i].tmdb_genre_id = genres[i].tmdb_genre_id

\* C27: no two Genre records share a tmdb_genre_id after any sequence of
\* genre syncs (all, new only) and movie syncs, whatever ids the upstream
\* lists repeat, with merges and deletes of duplicate Movies in between; and
\* no step of these removes a Genre record.
C27_GenreIdUnique == [](GenreIdsDistinct) /\ [][GenresKept]_vars

\* Genres were created by a movie sync whose genre list repeats an id, one
\* genre for that id, in a store that already held genres.
C27_Witness ==
    /\ last.op = "syncMovie"
    /\ last.kind = "movie"
    /\ \E k, l \in DOMAIN last.in.details.genres :
          k # l /\ last.in.details.genres[k].id = last.in.details.genres[l].id
    /\ Cardinality(DOMAIN genres) >= 3
    /\ \A k \in DOMAIN last.in.details.genres :
          Cardinality(SearchGenres(genres, last.in.details.genres[k].id)) = 1

(* ------------------------------- C28 ----------------------------------- *)
\* The key a keep policy ranks a Movie by.
PolicyKey(policy, m) ==
    IF policy = "newest" THEN m.create_date
    ELSE IF policy = "highest_rating" THEN m.vote_average
    ELSE Cardinality({f \in {"overview", "director", "poster_path",
                             "backdrop_path"} : m[f] # FalseStr})
         + Cardinality(m.genre_ids)
         + (IF m.vote_count # 0 THEN 1 ELSE 0)

FlaggedLines(g) == {k \in LinesOfGroup(g) : lines[k].is_recommended_keep}

\* C28: after a detection under newest, most_complete or highest_rating
\* every group has exactly one line flagged 'recommended keep'; its Movie
\* has the greatest key of the group and no line before it in the group has
\* a Movie with that key.  Under manual no line is flagged.
C28_KeepPolicyFlagsOne ==
    last.op = "detect" =>
        \A g \in GroupNumbers :
            IF last.keep_preference = "manual" THEN FlaggedLines(g) = {}
            ELSE /\ Cardinality(FlaggedLines(g)) = 1
                 /\ \A k \in FlaggedLines(g) : \A l \in LinesOfGroup(g) :
                       LET mine == PolicyKey(last.keep_preference,
                                             movies[lines[k].movie_id])
                           theirs == PolicyKey(last.keep_preference,
                                               movies[lines[l].movie_id])
                       IN  /\ theirs <= mine
                           /\ l < k => theirs < mine

\* A group of at least two Movies with the greatest key, the first of which
\* is flagged.
C28_Witness ==
    /\ last.op = "detect"
    /\ last.keep_preference # "manual"
    /\ \E g \in GroupNumbers : \E k \in FlaggedLines(g) :
          \E l \in LinesOfGroup(g) :
              /\ k < l
              /\ PolicyKey(last.keep_preference, movies[lines[l].movie_id])
                   = PolicyKey(last.keep_preference,
                               movies[lines[k].movie_id])

(* ------------------------------- C29 ----------------------------------- *)
\* The words of a title: its maximal runs of characters other than spaces.
RECURSIVE TitleWords(_)
TitleWords(t) ==
    IF t = <<>> THEN <<>>
    ELSE IF Head(t) = " " THEN TitleWords(Tail(t))
    ELSE LET spaces == {i \in DOMAIN t : t[i] = " "}
             n == IF spaces = {} THEN Len(t) + 1
                  ELSE CHOOSE i \in spaces : \A j \in spaces : i <= j
         IN  <<SubSeq(t, 1, n - 1)>> \o TitleWords(SubSeq(t, n, Len(t)))

RECURSIVE JoinWords(_)
JoinWords(ws) ==
    IF ws = <<>> THEN <<>>
    ELSE IF Len(ws) = 1 THEN ws[1]
    ELSE ws[1] \o <<" ">> \o JoinWords(Tail(ws))

Articles == {<<"t", "h", "e">>, <<"a">>, <<"a", "n">>}

WithoutArticles(ws) == SelectSeq(ws, LAMBDA w : w \notin Articles)

WithoutPunctuation(t) == SelectSeq(t, LAMBDA c : c \notin Punctuation)

\* The reference: lower case, whole article words removed, punctuation
\* removed, whitespace collapsed; the articles are looked for before the
\* punctuation is removed ...
ReferenceTitle(title) ==
    LET ws == WithoutArticles(TitleWords(LowerSeq(title)))
        bare == [k \in DOMAIN ws |-> WithoutPunctuation(ws[k])]
    IN  JoinWords(SelectSeq(bare, LAMBDA w : w # <<>>))

\* ... or after.
ReferenceTitleLate(title) ==
    JoinWords(WithoutArticles(
                  TitleWords(WithoutPunctuation(LowerSeq(title)))))

\* C29: the normalized title is the reference: the title in lower case
\* without the whole words 'the', 'a' and 'an', without the punctuation
\* . , ! ? ; : and with runs of whitespace collapsed; no letter of another
\* word is removed.
C29_NormalizeIsReference ==
    last.op = "normalize" =>
        last.normalized \in {ReferenceTitle(last.title),
                             ReferenceTitleLate(last.title)}

(* ------------------------------- C30 ----------------------------------- *)
\* C30: after a detection, whatever the criterion, no Movie is a member of
\* two groups, and the number of groups reported is the number of distinct
\* sets of duplicates.
C30_GroupsDisjoint ==
    last.op = "detect" =>
        /\ \A g, h \in GroupNumbers :
              g # h => MembersOfGroup(g) \cap MembersOfGroup(h) = {}
        /\ last.duplicate_count
             = Cardinality({MembersOfGroup(g) : g \in GroupNumbers})

====
